---- MODULE Spec2Model ----
(***************************************************************************)
(* A model of the Grafana-Loki MCP server (grafana_loki_mcp/server.py):    *)
(* the time-expression handling (parse_grafana_time, iso8601_to_unix_nano, *)
(* the query_loki tool), the GrafanaClient gateway with its memoized Loki  *)
(* datasource identifier, and the tool layer that builds a client per      *)
(* invocation (get_grafana_client).                                        *)
(*                                                                         *)
(* Representation.  A Python str is a sequence of one-character strings,   *)
(* so that startswith, isdigit, replace, slicing and the regular           *)
(* expressions are computed character by character.  An Optional value is  *)
(* a sequence of length at most one: None is <<>>, a present value x is    *)
(* <<x>>.  A Python int that may exceed 32 bits (a nanosecond timestamp)   *)
(* is a record [sec, ns] standing for sec * 10^9 + ns, 0 <= ns < 10^9.     *)
(***************************************************************************)
EXTENDS Integers, Sequences, FiniteSets, TLC

VARIABLES
    gw,            \* the long-lived GrafanaClient: base_url, headers, _loki_datasource_uid
    config,        \* the process configuration read by get_grafana_client
    datasources,   \* the datasource listing of the Grafana instance (environment)
    proc,          \* "starting", then "running", or "exited" after sys.exit
    last,          \* the last call: who made it, its requests and its result
    okResolves,    \* successful Loki datasource resolutions on gw so far
    okResolveLists,\* datasource-list requests issued by those resolutions
    toolUid,       \* the identifier the first resolving tool invocation obtained
    hostTz,        \* the host's local UTC offset in seconds (environment)
    clock,         \* the host's wall clock, whole seconds since the epoch
    time_in,       \* SpecTime: the time expression under examination
    time_out,      \* SpecTime: what the time functions made of it
    trunc,         \* SpecTruncate: a log entry, two thresholds, and its truncations
    calls,         \* SpecRace: the _get_loki_datasource_uid calls in progress on gw
    fmt            \* SpecFormat: a query result, a format type, and the formatted string

(***************************************************************************)
(* Python str and Optional helpers                                         *)
(***************************************************************************)
\* Op(e) with e computed once: TLC evaluates an operator's argument anew at each
\* use, and a variable bound over a set is bound to a value
With(e, Op(_)) == CHOOSE r \in {Op(v) : v \in {e}} : TRUE

None == <<>>

Some(x) == <<x>>

IsNone(o) == o = <<>>

Val(o) == o[1]

DigitChars == {"0", "1", "2", "3", "4", "5", "6", "7", "8", "9"}

DigitChar(d) ==
    CASE d = 0 -> "0" [] d = 1 -> "1" [] d = 2 -> "2" [] d = 3 -> "3"
      [] d = 4 -> "4" [] d = 5 -> "5" [] d = 6 -> "6" [] d = 7 -> "7"
      [] d = 8 -> "8" [] d = 9 -> "9"

DigitVal(c) ==
    CASE c = "0" -> 0 [] c = "1" -> 1 [] c = "2" -> 2 [] c = "3" -> 3
      [] c = "4" -> 4 [] c = "5" -> 5 [] c = "6" -> 6 [] c = "7" -> 7
      [] c = "8" -> 8 [] c = "9" -> 9

\* s[i:j] with 0-based, end-exclusive, already clamped indices
Slice(s, i, j) == IF j <= i THEN <<>> ELSE SubSeq(s, i + 1, j)

\* str.startswith(p)
StartsWith(s, p) == Len(s) >= Len(p) /\ SubSeq(s, 1, Len(p)) = p

\* str.endswith(p)
EndsWith(s, p) == Len(s) >= Len(p) /\ SubSeq(s, Len(s) - Len(p) + 1, Len(s)) = p

\* every character of s[i:j] is a decimal digit
AllDigits(s, i, j) == \A k \in (i + 1)..j : s[k] \in DigitChars

\* str.isdigit(): non-empty and all digits
IsDigit(s) == Len(s) > 0 /\ AllDigits(s, 0, Len(s))

\* int(s) of a short all-digit string
RECURSIVE ToInt(_)
ToInt(s0) ==
    With(s0, LAMBDA s :
        IF s = <<>> THEN 0
        ELSE 10 * ToInt(SubSeq(s, 1, Len(s) - 1)) + DigitVal(s[Len(s)]))

\* str(n) of a non-negative int
RECURSIVE StrNat(_)
StrNat(n0) ==
    With(n0, LAMBDA n :
        IF n < 10 THEN <<DigitChar(n)>> ELSE StrNat(n \div 10) \o <<DigitChar(n % 10)>>)

\* str(n) of an int
Str(n) == IF n < 0 THEN <<"-">> \o StrNat(0 - n) ELSE StrNat(n)

\* n as exactly w digits, zero padded (n < 10^w)
RECURSIVE Pad(_, _)
Pad(n0, w) ==
    With(n0, LAMBDA n :
        IF w = 0 THEN <<>> ELSE Pad(n \div 10, w - 1) \o <<DigitChar(n % 10)>>)

\* str.replace("Z", "+00:00"): every occurrence
RECURSIVE ReplaceZ(_)
ReplaceZ(s0) ==
    With(s0, LAMBDA s :
        IF s = <<>> THEN <<>>
        ELSE (IF Head(s) = "Z" THEN <<"+", "0", "0", ":", "0", "0">> ELSE <<Head(s)>>)
             \o ReplaceZ(Tail(s)))

(***************************************************************************)
(* datetime.datetime.fromisoformat, the grammar of Python 3.10 (the        *)
(* oldest interpreter setup.py admits):                                    *)
(*   YYYY-MM-DD[*HH[:MM[:SS[.fff[fff]]]][(+|-)HH:MM[:SS]]]                 *)
(* A UTC offset with fractional seconds is not among the inputs drawn      *)
(* here.  The result is the datetime's fields, tz = None for a naive one.  *)
(***************************************************************************)
Invalid == [ok |-> FALSE]

IsLeap(y) == (y % 4 = 0 /\ y % 100 # 0) \/ y % 400 = 0

DaysInMonth(y, m) ==
    IF m = 2 THEN (IF IsLeap(y) THEN 29 ELSE 28)
    ELSE IF m \in {4, 6, 9, 11} THEN 30 ELSE 31

\* HH[:MM[:SS[.fff[fff]]]]: <<ok, hour, minute, second, microsecond>>
ParseHhMmSsFf(t0) ==
    With(t0, LAMBDA t :
        LET n == Len(t)
            two(i) == ToInt(Slice(t, i, i + 2))
            hhOk == n >= 2 /\ AllDigits(t, 0, 2)
            mmOk == n >= 5 /\ hhOk /\ t[3] = ":" /\ AllDigits(t, 3, 5)
            ssOk == n >= 8 /\ mmOk /\ t[6] = ":" /\ AllDigits(t, 6, 8)
            ffOk == n \in {12, 15} /\ ssOk /\ t[9] = "." /\ AllDigits(t, 9, n)
        IN  IF n = 2 /\ hhOk THEN <<TRUE, two(0), 0, 0, 0>>
            ELSE IF n = 5 /\ mmOk THEN <<TRUE, two(0), two(3), 0, 0>>
            ELSE IF n = 8 /\ ssOk THEN <<TRUE, two(0), two(3), two(6), 0>>
            ELSE IF n = 12 /\ ffOk
                 THEN <<TRUE, two(0), two(3), two(6), ToInt(Slice(t, 9, 12)) * 1000>>
            ELSE IF n = 15 /\ ffOk
                 THEN <<TRUE, two(0), two(3), two(6), ToInt(Slice(t, 9, 15))>>
            ELSE <<FALSE, 0, 0, 0, 0>>)

\* str.find(c) + 1: the 1-based position of the first c in t, 0 when absent
FindChar(t, c) ==
    IF \E i \in 1..Len(t) : t[i] = c
    THEN CHOOSE i \in 1..Len(t) : t[i] = c /\ \A j \in 1..(i - 1) : t[j] # c
    ELSE 0

\* the time part with its optional offset: <<ok, h, m, s, us, tz>>
\* tz_pos of _parse_isoformat_time: the first "-", else the first "+", else 0
TzPos(t) == IF FindChar(t, "-") # 0 THEN FindChar(t, "-") ELSE FindChar(t, "+")

ParseIsoformatTime(t0) ==
    With(t0, LAMBDA t :
    With(TzPos(t), LAMBDA tz_pos :
    With(ParseHhMmSsFf(IF tz_pos > 0 THEN Slice(t, 0, tz_pos - 1) ELSE t), LAMBDA tc :
    With(Slice(t, tz_pos, Len(t)), LAMBDA tzstr :
    With(ParseHhMmSsFf(tzstr), LAMBDA zc :
        LET off == zc[2] * 3600 + zc[3] * 60 + zc[4]
            sign == IF t[tz_pos] = "-" THEN 0 - 1 ELSE 1
        IN  IF ~tc[1] THEN <<FALSE, 0, 0, 0, 0, None>>
            ELSE IF tz_pos = 0 THEN <<TRUE, tc[2], tc[3], tc[4], tc[5], None>>
            ELSE IF /\ Len(tzstr) \in {5, 8} /\ zc[1]
                    /\ zc[3] < 60 /\ zc[4] < 60 /\ off < 86400
                 THEN <<TRUE, tc[2], tc[3], tc[4], tc[5], Some(sign * off)>>
            ELSE <<FALSE, 0, 0, 0, 0, None>>)))))

\* YYYY-MM-DD at the head of s: <<ok, year, month, day>>
ParseIsoformatDate(s) ==
    IF /\ Len(s) >= 10
       /\ AllDigits(s, 0, 4) /\ s[5] = "-"
       /\ AllDigits(s, 5, 7) /\ s[8] = "-"
       /\ AllDigits(s, 8, 10)
    THEN <<TRUE, ToInt(Slice(s, 0, 4)), ToInt(Slice(s, 5, 7)), ToInt(Slice(s, 8, 10))>>
    ELSE <<FALSE, 0, 0, 0>>

FromIsoFormat(s0) ==
    With(s0, LAMBDA s :
    With(ParseIsoformatDate(s), LAMBDA dc :
    With(IF Len(s) > 10 THEN ParseIsoformatTime(Slice(s, 11, Len(s)))
         ELSE <<TRUE, 0, 0, 0, 0, None>>, LAMBDA tm :
        IF /\ dc[1] /\ dc[2] >= 1 /\ dc[3] \in 1..12
           /\ dc[4] >= 1 /\ dc[4] <= DaysInMonth(dc[2], dc[3])
           /\ tm[1] /\ tm[2] < 24 /\ tm[3] < 60 /\ tm[4] < 60
        THEN [ok |-> TRUE, year |-> dc[2], month |-> dc[3], day |-> dc[4],
              hour |-> tm[2], minute |-> tm[3], second |-> tm[4],
              microsecond |-> tm[5], tz |-> tm[6]]
        ELSE Invalid)))

(***************************************************************************)
(* datetime.timestamp() and int(timestamp * 1_000_000_000).                *)
(*                                                                         *)
(* timestamp() is a binary64 float.  For an aware datetime it is the UTC   *)
(* instant; for a naive one Python reads the fields as local time of the   *)
(* host (mktime), i.e. the instant is the civil time minus the host's UTC  *)
(* offset.  The float arithmetic is computed exactly for instants from     *)
(* 2006-07-14 to 2038-01-17, where sec lies in [2^30, 2^31) (the float's   *)
(* grid is 2^-22 s) and sec * 10^9 in [2^60, 2^61) (the product's grid is  *)
(* 256 ns).                                                                *)
(***************************************************************************)
\* days since 1970-01-01 of a proleptic Gregorian date
DaysFromCivil(y0, m, d) ==
    LET y == IF m <= 2 THEN y0 - 1 ELSE y0
        era == y \div 400
        yoe == y - era * 400
        mp == IF m > 2 THEN m - 3 ELSE m + 9
        doy == (153 * mp + 2) \div 5 + d - 1
        doe == yoe * 365 + yoe \div 4 - yoe \div 100 + doy
    IN  era * 146097 + doe - 719468

\* whole seconds since the epoch of the instant dt denotes on a host at offset tz
EpochSeconds(dt, tz) ==
    LET civil == DaysFromCivil(dt.year, dt.month, dt.day) * 86400
                 + dt.hour * 3600 + dt.minute * 60 + dt.second
    IN  civil - (IF IsNone(dt.tz) THEN tz ELSE Val(dt.tz))

\* round(a / b) to nearest, ties to even, for a >= 0, b > 0
RoundDiv(a, b) ==
    LET q == a \div b
        r == a % b
    IN  IF 2 * r > b \/ (2 * r = b /\ q % 2 = 1) THEN q + 1 ELSE q

\* int(float(sec + us / 10^6) * 10^9) as [sec, ns]:
\*   x = sec + k / 2^22 with k = round(us * 2^22 / 10^6) = round(us * 65536 / 15625);
\*   x * 10^9 = sec * 10^9 + k * 5^9 / 2^13, rounded to a multiple of 256.
\*   FloatFraction(us) is k; FloatProduct(k) is <<FI, FR>> with
\*   k * 5^9 / 2^13 = FI + FR / 8192.
FloatFraction(us) == (us \div 15625) * 65536 + RoundDiv((us % 15625) * 65536, 15625)

FloatProduct(k) ==
    LET c == k \div 8192
        d == k % 8192
        q1 == (d * 15625) \div 8192
        r1 == (d * 15625) % 8192
    IN  <<c * 1953125 + q1 * 125 + (r1 * 125) \div 8192, (r1 * 125) % 8192>>

FloatNano(sec0, us0) ==
    With(sec0, LAMBDA sec :
    With(FloatFraction(us0), LAMBDA k :
    With(FloatProduct(k), LAMBDA f :
        LET q == f[1] \div 256
            num == (f[1] % 256) * 8192 + f[2]
            up == 2 * num > 256 * 8192 \/ (2 * num = 256 * 8192 /\ q % 2 = 1)
        IN  With(256 * (IF up THEN q + 1 ELSE q), LAMBDA ns :
                [sec |-> sec + ns \div 1000000000, ns |-> ns % 1000000000]))))

\* int(dt.timestamp() * 1_000_000_000)
TimestampNano(dt, tz) == FloatNano(EpochSeconds(dt, tz), dt.microsecond)

\* str(n) of a non-negative [sec, ns] integer
StrNano(n0) ==
    With(n0, LAMBDA n : IF n.sec = 0 THEN StrNat(n.ns) ELSE StrNat(n.sec) \o Pad(n.ns, 9))

(***************************************************************************)
(* parse_grafana_time, iso8601_to_unix_nano and the two places that turn   *)
(* a caller's start/end into the value sent upstream.                      *)
(***************************************************************************)
Now == <<"n", "o", "w">>

Units == {"s", "m", "h", "d", "w", "M", "y"}

\* re.match(r"^now-\d+[smhdwMy]$", s)
MatchesRelative(s) ==
    /\ Len(s) >= 6
    /\ StartsWith(s, Now \o <<"-">>)
    /\ AllDigits(s, 4, Len(s) - 1)
    /\ s[Len(s)] \in Units

\* re.match(r"^\d{4}-\d{2}-\d{2}T\d{2}:\d{2}:\d{2}", s)
MatchesRfc3339(s) ==
    /\ Len(s) >= 19
    /\ AllDigits(s, 0, 4) /\ s[5] = "-" /\ AllDigits(s, 5, 7) /\ s[8] = "-"
    /\ AllDigits(s, 8, 10) /\ s[11] = "T"
    /\ AllDigits(s, 11, 13) /\ s[14] = ":" /\ AllDigits(s, 14, 16) /\ s[17] = ":"
    /\ AllDigits(s, 17, 19)

StrResult(s) == [kind |-> "str", s |-> s]

DatetimeResult(dt) == [kind |-> "datetime", dt |-> dt]

\* a fallback that answers the empty string
ParseFallback_blank(time_str) == StrResult(<<>>)

\* a fallback that hands the input back
ParseFallback_echo(time_str) == StrResult(time_str)

\* the fallback of parse_grafana_time when nothing parses
ParseFallback(time_str) == StrResult(Now)

\* the relative-time test of parse_grafana_time
IsGrafanaRelative(time_str) == time_str = Now \/ MatchesRelative(time_str)

\* lines 441-449: the RFC 3339 attempt, Optional[datetime]
ParseRfc3339(time_str) ==
    IF MatchesRfc3339(time_str)
    THEN With(FromIsoFormat(IF EndsWith(time_str, <<"Z">>) THEN ReplaceZ(time_str)
                            ELSE time_str),
              LAMBDA dt : IF dt.ok THEN Some(dt) ELSE None)
    ELSE None

parse_grafana_time(time_str) ==
    IF time_str = <<>> THEN StrResult(Now)
    ELSE IF IsGrafanaRelative(time_str) THEN StrResult(time_str)
    ELSE IF IsDigit(time_str) THEN StrResult(time_str)
    ELSE With(FromIsoFormat(time_str), LAMBDA dt :
            IF dt.ok THEN DatetimeResult(dt)
            ELSE With(ParseRfc3339(time_str), LAMBDA rfc :
                    IF ~IsNone(rfc) THEN DatetimeResult(Val(rfc))
                    ELSE ParseFallback(time_str)))

\* Optional[int]: the nanoseconds, or None when ts is no ISO-8601 string
iso8601_to_unix_nano(ts, tz) ==
    With(FromIsoFormat(ReplaceZ(ts)), LAMBDA dt :
        IF dt.ok THEN Some(TimestampNano(dt, tz)) ELSE None)

\* the query_loki tool's treatment of one of start/end (an Optional[str])
ToolParseTime(t, tz) ==
    IF IsNone(t) \/ Val(t) = <<>> THEN t
    ELSE With(parse_grafana_time(Val(t)), LAMBDA parsed :
            IF parsed.kind = "str" THEN Some(parsed.s)
            ELSE Some(StrNano(TimestampNano(parsed.dt, tz))))

StrParam(s) == [t |-> "str", v |-> s]

IntParam(n) == [t |-> "int", v |-> n]

\* a client that reads a digit string as seconds and sends nanoseconds
ClientTimeParam_seconds(s, tz) ==
    IF StartsWith(s, Now) THEN StrParam(s)
    ELSE IF IsDigit(s) THEN StrParam(s \o Pad(0, 9))
    ELSE With(iso8601_to_unix_nano(s, tz), LAMBDA unix :
            IF ~IsNone(unix) THEN IntParam(Val(unix)) ELSE StrParam(s))

\* GrafanaClient.query_loki's params["start"] / params["end"] for a given string
ClientTimeParam(s, tz) ==
    IF StartsWith(s, Now) \/ IsDigit(s) THEN StrParam(s)
    ELSE With(iso8601_to_unix_nano(s, tz), LAMBDA unix :
            IF ~IsNone(unix) THEN IntParam(Val(unix)) ELSE StrParam(s))

(***************************************************************************)
(* Time expressions drawn as inputs, by syntax.                            *)
(***************************************************************************)
Rel(n, u) == Now \o <<"-">> \o StrNat(n) \o <<u>>

RelAmounts == {0, 1, 5, 12, 60}

RelInputs == {Rel(n, u) : n \in RelAmounts, u \in Units}

\* relative expressions with a unit outside [smhdwMy]
BadUnitInputs == {Rel(1, "z"), Rel(5, "H"), Rel(2, "S"), Rel(7, "D")}

\* digit strings: up to 10 digits, and more than 10
ShortDigitInputs ==
    {StrNat(0), StrNat(7), StrNat(1609459200), StrNat(1710410400),
     Pad(1, 10), StrNat(160945920)}

LongDigitInputs ==
    {StrNat(1609459200) \o <<"1">>,
     StrNat(1609459200) \o Pad(0, 9),
     StrNat(1716800000) \o Pad(0, 9),
     StrNat(1748357973) \o Pad(73316096, 9)}

\* civil date-times <<year, month, day, hour, minute, second>>
Civils ==
    {<<2021, 1, 1, 0, 0, 0>>, <<2024, 3, 14, 10, 0, 0>>, <<2024, 3, 14, 11, 0, 0>>,
     <<2025, 5, 27, 14, 59, 33>>, <<2024, 2, 29, 23, 59, 59>>}

IsoText(c, sep) ==
    Pad(c[1], 4) \o <<"-">> \o Pad(c[2], 2) \o <<"-">> \o Pad(c[3], 2) \o <<sep>>
    \o Pad(c[4], 2) \o <<":">> \o Pad(c[5], 2) \o <<":">> \o Pad(c[6], 2)

Fractions == {<<>>, <<".">> \o Pad(73316, 6), <<".">> \o Pad(500, 3), <<".">> \o Pad(1, 6)}

\* explicit UTC designators: <<text, offset in seconds>>
Offsets ==
    {<<<<"Z">>, 0>>, <<<<"+", "0", "0", ":", "0", "0">>, 0>>, <<<<"+", "0", "9", ":", "0", "0">>, 32400>>, <<<<"-", "0", "5", ":", "3", "0">>, 0 - 19800>>}

NaiveIsoInputs == {IsoText(c, sep) \o f : c \in Civils, sep \in {"T", " "}, f \in Fractions}

AwareIsoInputs == {IsoText(c, "T") \o f \o o[1] : c \in Civils, f \in Fractions, o \in Offsets}

DateOnlyInputs == {SubSeq(IsoText(c, "T"), 1, 10) : c \in Civils}

\* inputs that match none of the accepted syntaxes
GarbageInputs ==
    {<<"i", "n", "v", "a", "l", "i", "d", "-", "f", "o", "r", "m", "a", "t">>,
     <<"n", "o", "t", "-", "a", "-", "d", "a", "t", "e">>,
     <<"x">>,
     <<"n", "o", "w", "x">>,
     <<"n", "o", "w", "-", "h">>,
     <<"n", "o", "w", "-", "1">>,
     <<"n", "o", "w", "+", "1", "h">>,
     <<"n", "o", "w", "-", "1", "h", "h">>,
     <<"n", "o", "w", "-", "1", ".", "5", "h">>,
     <<"N", "o", "w", "-", "1", "h">>,
     <<"2", "0", "2", "1", "-", "1", "3", "-", "0", "1", "T", "0", "0", ":", "0", "0", ":", "0", "0">>,
     <<"2", "0", "2", "1", "-", "0", "2", "-", "3", "0", "T", "0", "0", ":", "0", "0", ":", "0", "0", "Z">>,
     <<"2", "0", "2", "1", "-", "0", "1", "-", "0", "1", "T", "0", "0", ":", "0", "0", ":", "0", "0", "z">>,
     <<"2", "0", "2", "1", "-", "1", "-", "1">>,
     <<"2", "0", "2", "1", "-", "0", "1", "-", "0", "1", "T", "2", "5", ":", "0", "0", ":", "0", "0", "Z">>,
     <<"-", "5">>,
     <<"1", "h">>,
     <<"2", "0", "2", "1", "-", "0", "1", "-", "0", "1", "T", "0", "0", ":", "0", "0", ":", "0", "0", "Z", "Z">>,
     <<" ", "n", "o", "w">>,
     <<"1", "6", "0", "9", "4", "5", "9", "2", "0", "0", ".", "5">>}

TimeInputs ==
    {<<>>, Now} \cup RelInputs \cup BadUnitInputs \cup ShortDigitInputs \cup LongDigitInputs
    \cup NaiveIsoInputs \cup AwareIsoInputs \cup DateOnlyInputs \cup GarbageInputs

\* host UTC offsets in seconds: UTC, Tokyo, New York (standard time)
HostTzs == {0, 32400, 0 - 18000}

ClockStart == 1750 * 1000000

MaxTick == 2

NoOutput == [fn |-> "none", at |-> 0, r |-> <<>>]

(***************************************************************************)
(* The Grafana HTTP API as the gateway sees it.  A request is the URL, the *)
(* headers and the query parameters handed to requests.get; its outcome is *)
(* chosen by the environment: a 2xx response, a response whose status      *)
(* makes raise_for_status raise HTTPError, or no response at all.  An      *)
(* error response has a body: json is what response.json() decodes (None   *)
(* when the body is no JSON), text is response.text.                       *)
(***************************************************************************)
Request(url, headers, params) == [url |-> url, headers |-> headers, params |-> params]

HttpOk == [kind |-> "ok", status |-> 200, json |-> None, text |-> ""]

HttpError(status, json, text) ==
    [kind |-> "http_error", status |-> status, json |-> json, text |-> text]

ConnError == [kind |-> "conn_error", status |-> 0, json |-> None, text |-> ""]

\* the cause of an exception that is not raised from another one
NoCause == [kind |-> "none", status |-> 0, json |-> None, text |-> ""]

\* error responses: a JSON body, a body that is no JSON, an empty body
NotFoundResponse ==
    HttpError(404, Some([message |-> "Data source not found"]),
              "{\"message\": \"Data source not found\"}")

BadGatewayResponse == HttpError(502, None, "Bad Gateway")

EmptyErrorResponse == HttpError(500, None, "")

HttpOutcomes == {HttpOk, NotFoundResponse, BadGatewayResponse, EmptyErrorResponse, ConnError}

\* outcomes of the listing request that precedes an operation's own request
ListOutcomes == {HttpOk, NotFoundResponse, ConnError}

\* a request together with what came back: the outcome and, on 2xx, the decoded body
Exchange(req, o, body) ==
    [url |-> req.url, headers |-> req.headers, params |-> req.params,
     outcome |-> o, body |-> IF o.kind = "ok" THEN Some(body) ELSE None]

\* str(e) of the exception requests raises: the status line for an HTTPError
ExceptionText(o) == [kind |-> o.kind, status |-> o.status]

\* lines 176-183: str(e), then " - Details: <json>" when the response body decodes
\* as JSON, else " - Response: <text>" when the body is not empty
ErrorDetail(o) ==
    [error |-> ExceptionText(o),
     details |-> IF o.kind = "http_error" THEN o.json ELSE None,
     response |-> IF o.kind = "http_error" /\ IsNone(o.json) /\ o.text # ""
                  THEN Some(o.text) ELSE None]

Return(v) == [kind |-> "return", value |-> v]

\* an exception of class exc whose message starts with msg, raised from cause
Raise(exc, msg, cause) ==
    [kind |-> "raise", exc |-> exc, msg |-> msg,
     detail |-> [error |-> ExceptionText(cause), details |-> None, response |-> None],
     cause |-> cause]

\* sys.exit(code) after printing msg on stderr
Exit(code, msg) == [kind |-> "exit", code |-> code, msg |-> msg]

\* a handler that reports the failure in a result instead of raising
WrapRequestException_swallow(prefix, o) == Return([error |-> prefix])

\* "except requests.exceptions.RequestException as e: raise ValueError(prefix: detail) from e"
WrapRequestException(prefix, o) ==
    [kind |-> "raise", exc |-> "ValueError", msg |-> prefix, detail |-> ErrorDetail(o),
     cause |-> o]

\* what requests.get / raise_for_status raise when nothing catches it
RequestException(o) ==
    Raise(IF o.kind = "http_error" THEN "HTTPError" ELSE "ConnectionError", "", o)

ApiDatasources == <<"/", "a", "p", "i", "/", "d", "a", "t", "a", "s", "o", "u", "r", "c", "e", "s">>

ProxyPath == ApiDatasources \o <<"/", "p", "r", "o", "x", "y", "/">>

NamePath == ApiDatasources \o <<"/", "n", "a", "m", "e", "/">>

LokiApi == <<"/", "l", "o", "k", "i", "/", "a", "p", "i", "/", "v", "1">>

QueryRangePath == LokiApi \o <<"/", "q", "u", "e", "r", "y", "_", "r", "a", "n", "g", "e">>

LabelsPath == LokiApi \o <<"/", "l", "a", "b", "e", "l", "s">>

LabelPath == LokiApi \o <<"/", "l", "a", "b", "e", "l", "/">>

ValuesPath == <<"/", "v", "a", "l", "u", "e", "s">>

Bearer == <<"B", "e", "a", "r", "e", "r", " ">>

LokiType == <<"l", "o", "k", "i">>

PrometheusType == <<"p", "r", "o", "m", "e", "t", "h", "e", "u", "s">>

\* a constructor that keeps the URL as given
RStripSlash_keep(s0) == s0

\* str.rstrip("/")
RECURSIVE RStripSlash(_)
RStripSlash(s0) ==
    With(s0, LAMBDA s :
        IF s # <<>> /\ s[Len(s)] = "/" THEN RStripSlash(SubSeq(s, 1, Len(s) - 1)) ELSE s)

(***************************************************************************)
(* GrafanaClient.  Every method is an operator from the instance c and the *)
(* environment's answers to the instance afterwards, the requests issued   *)
(* in order, and the method's result (a return or a raise).  Methods that  *)
(* resolve the Loki datasource also report the listing they read (listed)  *)
(* and the identifier they obtained (resolved).                            *)
(***************************************************************************)
GrafanaClient(base_url, api_key) ==
    [base_url |-> RStripSlash(base_url),
     headers |-> [Authorization |-> Bearer \o api_key],
     _loki_datasource_uid |-> None]

\* a method that forgets the memoized identifier when it fails
Done_forget(c, reqs, result, listed, resolved) ==
    [client |-> IF result.kind = "raise" THEN [c EXCEPT !._loki_datasource_uid = None] ELSE c,
     reqs |-> reqs, result |-> result, listed |-> listed, resolved |-> resolved]

Done(c, reqs, result, listed, resolved) ==
    [client |-> c, reqs |-> reqs, result |-> result, listed |-> listed, resolved |-> resolved]

\* a request that is sent a second time when it fails
GetWrapped_retry(c, url, prefix, o, body) ==
    Done(c, IF o.kind = "ok" THEN <<Exchange(Request(url, c.headers, None), o, body)>>
            ELSE <<Exchange(Request(url, c.headers, None), o, body),
                   Exchange(Request(url, c.headers, None), o, body)>>,
         IF o.kind = "ok" THEN Return(body) ELSE WrapRequestException(prefix, o),
         None, None)

\* lines 297-313 and their copies: requests.get(url, headers) inside try/except
GetWrapped(c, url, prefix, o, body) ==
    Done(c, <<Exchange(Request(url, c.headers, None), o, body)>>,
         IF o.kind = "ok" THEN Return(body) ELSE WrapRequestException(prefix, o),
         None, None)

GrafanaClient_get_datasources(c, listing, o) ==
    GetWrapped(c, c.base_url \o ApiDatasources, "Error getting datasources", o,
               [datasources |-> listing])

\* a scan in which the last usable Loki entry wins
RECURSIVE LokiScan_last(_)
LokiScan_last(list0) ==
    With(list0, LAMBDA list :
        IF list = <<>> THEN None
        ELSE With(LokiScan_last(Tail(list)), LAMBDA later :
            IF ~IsNone(later) THEN later
            ELSE With(Head(list), LAMBDA ds :
                IF ds.type # LokiType THEN None
                ELSE IF ~IsNone(ds.id) THEN Some(Str(Val(ds.id))) ELSE ds.uid)))

\* the for loop of _get_loki_datasource_uid, lines 71-84: Optional[str]
RECURSIVE LokiScan(_)
LokiScan(list0) ==
    With(list0, LAMBDA list :
        IF list = <<>> THEN None
        ELSE With(Head(list), LAMBDA ds :
            IF ds.type = LokiType
            THEN IF ~IsNone(ds.id) THEN Some(Str(Val(ds.id)))
                 ELSE IF ~IsNone(ds.uid) THEN ds.uid
                 ELSE LokiScan(Tail(list))
            ELSE LokiScan(Tail(list))))

\* a client that never trusts its memo
IsCached_never(c) == FALSE

\* line 67: the memoized identifier is used when there is one
IsCached(c) == ~IsNone(c._loki_datasource_uid)

\* a resolution that answers the empty identifier when no Loki datasource is listed
NotFound_blank(c, reqs, listing) ==
    Done(c, reqs, Return(<<>>), Some(listing), Some(<<>>))

\* line 86: the loop ended without a return
NotFound(c, reqs, listing) ==
    Done(c, reqs, Raise("ValueError", "No Loki datasource found", NoCause), Some(listing), None)

\* a resolution that memoizes the empty identifier when the listing request fails
ListFailed_cached(c, got) ==
    Done([c EXCEPT !._loki_datasource_uid = Some(<<>>)], got.reqs, got.result, None, None)

\* line 70: get_datasources() raised, the exception leaves the method
ListFailed(c, got) == Done(c, got.reqs, got.result, None, None)

_get_loki_datasource_uid(c, listing, oList) ==
    IF IsCached(c)
    THEN Done(c, <<>>, Return(Val(c._loki_datasource_uid)), None, c._loki_datasource_uid)
    ELSE With(GrafanaClient_get_datasources(c, listing, oList), LAMBDA got :
        IF got.result.kind = "raise" THEN ListFailed(c, got)
        ELSE With(LokiScan(got.result.value.datasources), LAMBDA found :
            IF IsNone(found)
            THEN NotFound(c, got.reqs, listing)
            ELSE Done([c EXCEPT !._loki_datasource_uid = found], got.reqs,
                      Return(Val(found)), Some(listing), found)))

ProxyUrl(c, datasource_id) == c.base_url \o ProxyPath \o datasource_id

\* a query that takes its time range as given
QueryDefaults_asgiven(start, end) == <<start, end>>

\* lines 110-117: <<start, end>> after defaulting
QueryDefaults(start, end) ==
    IF ~IsNone(start) /\ IsNone(end) THEN <<start, Some(Now)>>
    ELSE IF IsNone(start) /\ IsNone(end) THEN <<Some(Rel(1, "h")), Some(Now)>>
    ELSE <<start, end>>

\* lines 131-148: params["start"] / params["end"], absent when the argument is None
TimeParam(t, tz) == IF IsNone(t) THEN None ELSE Some(ClientTimeParam(Val(t), tz))

QueryParams(query, start, end, limit, direction, tz) ==
    [query |-> query, limit |-> limit, direction |-> direction,
     start |-> TimeParam(start, tz), end |-> TimeParam(end, tz)]

\* Python's s[:n]
SlicePrefix(s, n) ==
    IF n >= 0 THEN SubSeq(s, 1, IF n < Len(s) THEN n ELSE Len(s))
    ELSE SubSeq(s, 1, Len(s) + n)

\* a mark of four dots
Ellipsis_long == <<".", ".", ".", ".">>

Ellipsis == <<".", ".", ".">>

\* a rule that also marks a line of exactly max_per_line characters
TruncateValue_atleast(value, max_per_line) ==
    IF Len(value) > 1 /\ Len(value[2]) >= max_per_line
    THEN <<value[1], SlicePrefix(value[2], max_per_line) \o Ellipsis>>
    ELSE value

\* a cut that leaves no mark
TruncateValue_cut(value, max_per_line) ==
    IF Len(value) > 1 /\ Len(value[2]) > max_per_line
    THEN <<value[1], SlicePrefix(value[2], max_per_line)>>
    ELSE value

\* lines 163-171: one [timestamp, line, ...] entry
TruncateValue(value, max_per_line) ==
    IF Len(value) > 1 /\ Len(value[2]) > max_per_line
    THEN <<value[1], SlicePrefix(value[2], max_per_line) \o Ellipsis>>
    ELSE value

TruncateStream(stream, max_per_line) ==
    IF "values" \in DOMAIN stream
    THEN [stream EXCEPT !.values =
            [i \in 1..Len(stream.values) |-> TruncateValue(stream.values[i], max_per_line)]]
    ELSE stream

\* lines 159-171 applied to the decoded response body
TruncateData(data, max_per_line) ==
    IF "data" \in DOMAIN data /\ "result" \in DOMAIN data.data
    THEN [data EXCEPT !.data.result =
            [i \in 1..Len(data.data.result) |-> TruncateStream(data.data.result[i], max_per_line)]]
    ELSE data

\* env: [listing, oList, o, body, tz] - the environment's answers during the call
GrafanaClient_query_loki(c, query, start, end, limit, direction, max_per_line, env) ==
    With(QueryDefaults(start, end), LAMBDA se :
    With(_get_loki_datasource_uid(c, env.listing, env.oList), LAMBDA res :
        IF res.result.kind = "raise" THEN res
        ELSE With(Request(ProxyUrl(res.client, res.result.value) \o QueryRangePath,
                          res.client.headers,
                          Some(QueryParams(query, se[1], se[2], limit, direction, env.tz))),
                  LAMBDA req :
            Done(res.client, res.reqs \o <<Exchange(req, env.o, env.body)>>,
                 IF env.o.kind = "ok" THEN Return(TruncateData(env.body, max_per_line))
                 ELSE WrapRequestException("Error querying Loki", env.o),
                 res.listed, res.resolved))))

\* lines 194-197: the request is made outside any try block
GrafanaClient_get_loki_labels(c, env) ==
    With(_get_loki_datasource_uid(c, env.listing, env.oList), LAMBDA res :
        IF res.result.kind = "raise" THEN res
        ELSE Done(res.client,
                  res.reqs \o <<Exchange(Request(ProxyUrl(res.client, res.result.value)
                                                 \o LabelsPath, res.client.headers, None),
                                         env.o, env.body)>>,
                  IF env.o.kind = "ok" THEN Return(env.body) ELSE RequestException(env.o),
                  res.listed, res.resolved))

GrafanaClient_get_loki_label_values(c, label, env) ==
    With(_get_loki_datasource_uid(c, env.listing, env.oList), LAMBDA res :
        IF res.result.kind = "raise" THEN res
        ELSE Done(res.client,
                  res.reqs \o <<Exchange(Request(ProxyUrl(res.client, res.result.value)
                                                 \o LabelPath \o label \o ValuesPath,
                                                 res.client.headers, None),
                                         env.o, env.body)>>,
                  IF env.o.kind = "ok" THEN Return(env.body)
                  ELSE WrapRequestException("Error getting Loki label values", env.o),
                  res.listed, res.resolved))

GrafanaClient_get_datasource_by_id(c, datasource_id, o, body) ==
    GetWrapped(c, c.base_url \o ApiDatasources \o <<"/">> \o Str(datasource_id),
               "Error getting datasource by ID", o, body)

GrafanaClient_get_datasource_by_name(c, name, o, body) ==
    GetWrapped(c, c.base_url \o NamePath \o name, "Error getting datasource by name", o, body)

(***************************************************************************)
(* The tool layer.  Every tool builds its client with get_grafana_client,  *)
(* which reads the process configuration and constructs a GrafanaClient.   *)
(***************************************************************************)
\* a factory that builds the client from whatever it is given
get_grafana_client_lenient(cfg) == Return(GrafanaClient(cfg.grafana_url, cfg.grafana_api_key))

\* lines 383-407: the client, or sys.exit(1) when the URL or the key is empty
get_grafana_client(cfg) ==
    IF cfg.grafana_url = <<>> THEN Exit(1, "Error: Grafana URL is required")
    ELSE IF cfg.grafana_api_key = <<>> THEN Exit(1, "Error: Grafana API key is required")
    ELSE Return(GrafanaClient(cfg.grafana_url, cfg.grafana_api_key))

\* "client = get_grafana_client(); return client.method(...)"
ToolCall(cfg, Method(_)) ==
    With(get_grafana_client(cfg), LAMBDA got :
        IF got.kind = "exit" THEN Done(None, <<>>, got, None, None)
        ELSE With(Method(got.value), LAMBDA r : [r EXCEPT !.client = Some(r.client)]))

\* lines 579-580
ToolDefaultEnd(start, end) == IF ~IsNone(start) /\ IsNone(end) THEN Some(Now) ELSE end

query_loki(cfg, query, start, end, limit, direction, max_per_line, env) ==
    With(ToolParseTime(start, env.tz), LAMBDA start1 :
    With(ToolParseTime(ToolDefaultEnd(start, end), env.tz), LAMBDA end1 :
        ToolCall(cfg, LAMBDA client :
            GrafanaClient_query_loki(client, query, start1, end1, limit, direction,
                                     max_per_line, env))))

get_loki_labels(cfg, env) ==
    ToolCall(cfg, LAMBDA client : GrafanaClient_get_loki_labels(client, env))

get_loki_label_values(cfg, label, env) ==
    ToolCall(cfg, LAMBDA client : GrafanaClient_get_loki_label_values(client, label, env))

get_datasources(cfg, listing, o) ==
    ToolCall(cfg, LAMBDA client : GrafanaClient_get_datasources(client, listing, o))

get_datasource_by_id(cfg, datasource_id, o, body) ==
    ToolCall(cfg, LAMBDA client : GrafanaClient_get_datasource_by_id(client, datasource_id, o, body))

get_datasource_by_name(cfg, name, o, body) ==
    ToolCall(cfg, LAMBDA client : GrafanaClient_get_datasource_by_name(client, name, o, body))


\* lines 479-493: the labels shown in the description, when the request for them succeeds
DescriptionLabels(r) ==
    IF r.result.kind = "return" /\ "data" \in DOMAIN r.result.value
    THEN Some(r.result.value.data) ELSE None

\* lines 455-496: "try: client = get_grafana_client(); labels_data = client.get_loki_labels()
\* ... except Exception: pass"; the description is returned whatever the request did
get_custom_query_loki_description(cfg, env) ==
    With(get_loki_labels(cfg, env), LAMBDA r :
        IF r.result.kind = "exit" THEN r
        ELSE [r EXCEPT !.result = Return([description |-> "query_loki",
                                          labels |-> DescriptionLabels(r)])])

\* lines 542-551: generated on first use; SystemExit is no Exception and passes through
DescriptionManager_get_description(cfg, env) == get_custom_query_loki_description(cfg, env)

\* lines 607-615
update_query_loki_description(cfg, env) == DescriptionManager_get_description(cfg, env)

(***************************************************************************)
(* The result formatter, format_loki_results of src/server.py.  A decoded  *)
(* JSON value is a record [t, s, items]: a string (t = "str", s its        *)
(* characters), a list (t = "arr", items its elements) or a dict           *)
(* (t = "obj", items its [k, v] pairs in insertion order).                 *)
(***************************************************************************)
JStr(s) == [t |-> "str", s |-> s, items |-> <<>>]

JArr(items) == [t |-> "arr", s |-> <<>>, items |-> items]

JObj(pairs) == [t |-> "obj", s |-> <<>>, items |-> pairs]

Pair(k, v) == [k |-> k, v |-> v]

\* the keys the formatter looks up
ErrorKey == <<"e", "r", "r", "o", "r">>

DataKey == <<"d", "a", "t", "a">>

ResultKey == <<"r", "e", "s", "u", "l", "t">>

StreamKey == <<"s", "t", "r", "e", "a", "m">>

ValuesKey == <<"v", "a", "l", "u", "e", "s">>

\* "k in d"
HasKey(d, k) == d.t = "obj" /\ \E i \in 1..Len(d.items) : d.items[i].k = k

\* d[k]
Get(d, k) == d.items[CHOOSE i \in 1..Len(d.items) : d.items[i].k = k].v

\* d.get(k, default)
GetOr(d, k, default) == IF HasKey(d, k) THEN Get(d, k) ELSE default

\* sep.join(parts)
RECURSIVE Join(_, _)
Join(parts0, sep) ==
    With(parts0, LAMBDA parts :
        IF parts = <<>> THEN <<>>
        ELSE IF Len(parts) = 1 THEN parts[1]
        ELSE parts[1] \o sep \o Join(Tail(parts), sep))

Newline == <<"\n">>

\* json.dumps of a str: quotes and backslashes are escaped
RECURSIVE JsonEscape(_)
JsonEscape(s0) ==
    With(s0, LAMBDA s :
        IF s = <<>> THEN <<>>
        ELSE (IF Head(s) \in {"\"", "\\"} THEN <<"\\", Head(s)>> ELSE <<Head(s)>>)
             \o JsonEscape(Tail(s)))

JsonQuote(s) == <<"\"">> \o JsonEscape(s) \o <<"\"">>

Indent(level) == [i \in 1..(2 * level) |-> " "]

\* json.dumps(v, indent=2) of a value nested level deep
RECURSIVE JsonDumps(_, _)
JsonDumps(v0, level) ==
    With(v0, LAMBDA v :
        IF v.t = "str" THEN JsonQuote(v.s)
        ELSE IF v.items = <<>> THEN (IF v.t = "arr" THEN <<"[", "]">> ELSE <<"{", "}">>)
        ELSE IF v.t = "arr"
        THEN <<"[">> \o Newline
             \o Join([i \in 1..Len(v.items) |->
                        Indent(level + 1) \o JsonDumps(v.items[i], level + 1)],
                     <<",">> \o Newline)
             \o Newline \o Indent(level) \o <<"]">>
        ELSE <<"{">> \o Newline
             \o Join([i \in 1..Len(v.items) |->
                        Indent(level + 1) \o JsonQuote(v.items[i].k) \o <<":", " ">>
                        \o JsonDumps(v.items[i].v, level + 1)],
                     <<",">> \o Newline)
             \o Newline \o Indent(level) \o <<"}">>)

\* the reading of JSON text: a value and the text after it, or a failure
Parsed1(v, rest) == [ok |-> TRUE, val |-> v, rest |-> rest]

ParseFail == [ok |-> FALSE, val |-> JStr(<<>>), rest |-> <<>>]

\* the text from its first character that is neither a space nor a newline
SkipWs(s) ==
    IF \A i \in 1..Len(s) : s[i] \in {" ", "\n"} THEN <<>>
    ELSE SubSeq(s, CHOOSE i \in 1..Len(s) :
                      /\ s[i] \notin {" ", "\n"}
                      /\ \A k \in 1..(i - 1) : s[k] \in {" ", "\n"},
                Len(s))

\* the number of backslashes that end right before position i
BackslashRun(s, i) ==
    Cardinality({k \in 1..(i - 1) : \A n \in k..(i - 1) : s[n] = "\\"})

\* position i holds a character of the string, not the backslash that escapes the next one
IsLiteralAt(s, i) == s[i] # "\\" \/ BackslashRun(s, i) % 2 = 1

\* the characters of a string literal after its opening quote
ParseJsonString(s) ==
    IF ~\E i \in 1..Len(s) : s[i] = "\"" /\ BackslashRun(s, i) % 2 = 0 THEN ParseFail
    ELSE With(CHOOSE i \in 1..Len(s) :
                  /\ s[i] = "\"" /\ BackslashRun(s, i) % 2 = 0
                  /\ \A k \in 1..(i - 1) : ~(s[k] = "\"" /\ BackslashRun(s, k) % 2 = 0),
              LAMBDA end :
        With({k \in 1..(end - 1) : IsLiteralAt(s, k)}, LAMBDA kept :
            IF \E k \in kept : BackslashRun(s, k) % 2 = 1 /\ s[k] \notin {"\"", "\\"}
            THEN ParseFail
            ELSE Parsed1(JStr([n \in 1..Cardinality(kept) |->
                                s[CHOOSE k \in kept :
                                    Cardinality({m \in kept : m <= k}) = n]]),
                         SubSeq(s, end + 1, Len(s)))))

RECURSIVE ParseJsonValue(_)
RECURSIVE ParseJsonItems(_, _, _)
\* the elements of a list or the pairs of a dict, after the opening bracket or a comma
ParseJsonItems(s0, t, acc) ==
    With(SkipWs(s0), LAMBDA s :
        With(IF t = "arr" THEN ParseJsonValue(s)
             ELSE IF s # <<>> /\ Head(s) = "\""
             THEN With(ParseJsonString(Tail(s)), LAMBDA key :
                    IF ~key.ok THEN ParseFail
                    ELSE With(SkipWs(key.rest), LAMBDA r :
                        IF r = <<>> \/ Head(r) # ":" THEN ParseFail
                        ELSE With(ParseJsonValue(Tail(r)), LAMBDA val :
                            IF ~val.ok THEN ParseFail
                            ELSE Parsed1(Pair(key.val.s, val.val), val.rest))))
             ELSE ParseFail,
             LAMBDA item :
            IF ~item.ok THEN ParseFail
            ELSE With(SkipWs(item.rest), LAMBDA r :
                IF r = <<>> THEN ParseFail
                ELSE IF Head(r) = "," THEN ParseJsonItems(Tail(r), t, Append(acc, item.val))
                ELSE IF Head(r) = (IF t = "arr" THEN "]" ELSE "}")
                THEN Parsed1([t |-> t, s |-> <<>>, items |-> Append(acc, item.val)], Tail(r))
                ELSE ParseFail)))

ParseJsonValue(s0) ==
    With(SkipWs(s0), LAMBDA s :
        IF s = <<>> THEN ParseFail
        ELSE IF Head(s) = "\"" THEN ParseJsonString(Tail(s))
        ELSE IF Head(s) \in {"[", "{"}
        THEN With(SkipWs(Tail(s)), LAMBDA r :
                IF r # <<>> /\ Head(r) = (IF Head(s) = "[" THEN "]" ELSE "}")
                THEN Parsed1([t |-> IF Head(s) = "[" THEN "arr" ELSE "obj", s |-> <<>>,
                              items |-> <<>>], Tail(r))
                ELSE ParseJsonItems(r, IF Head(s) = "[" THEN "arr" ELSE "obj", <<>>))
        ELSE ParseFail)

\* json.loads(text): the value, when the whole text is one JSON value
JsonLoads(text) ==
    With(ParseJsonValue(text), LAMBDA r :
        IF r.ok /\ SkipWs(r.rest) = <<>> THEN r ELSE ParseFail)

\* the civil date of a day number counted from 1970-01-01
CivilFromDays(days) ==
    LET z == days + 719468
        era == z \div 146097
        doe == z - era * 146097
        yoe == (doe - doe \div 1460 + doe \div 36524 - doe \div 146096) \div 365
        doy == doe - (365 * yoe + yoe \div 4 - yoe \div 100)
        mp == (5 * doy + 2) \div 153
        m == IF mp < 10 THEN mp + 3 ELSE mp - 9
    IN  [year |-> yoe + era * 400 + (IF m <= 2 THEN 1 ELSE 0), month |-> m,
         day |-> doy - (153 * mp + 2) \div 5 + 1]

\* datetime.fromtimestamp(seconds).strftime("%Y-%m-%d %H:%M:%S") on a host tz seconds east
LocalTimeStr(seconds, tz) ==
    With(seconds + tz, LAMBDA local :
    With(CivilFromDays(local \div 86400), LAMBDA date :
        Pad(date.year, 4) \o <<"-">> \o Pad(date.month, 2) \o <<"-">> \o Pad(date.day, 2)
        \o <<" ">> \o Pad((local % 86400) \div 3600, 2) \o <<":">>
        \o Pad((local % 3600) \div 60, 2) \o <<":">> \o Pad(local % 60, 2)))

\* ", ".join([f"{k}={v}" for k, v in labels.items()])
LabelStr(labels) ==
    Join([i \in 1..Len(labels.items) |->
            labels.items[i].k \o <<"=">> \o labels.items[i].v.s], <<",", " ">>)

\* "timestamp, log = entry" and int(timestamp[:10]): what they raise, if anything
EntryError(entry) ==
    IF Len(entry.items) < 2 THEN Some("not enough values to unpack")
    ELSE IF Len(entry.items) > 2 THEN Some("too many values to unpack")
    ELSE IF ~IsDigit(SlicePrefix(entry.items[1].s, 10))
    THEN Some("invalid literal for int() with base 10")
    ELSE None

EntryTime(entry, tz) == LocalTimeStr(ToInt(SlicePrefix(entry.items[1].s, 10)), tz)

StreamLabels(stream) == LabelStr(GetOr(stream, StreamKey, JObj(<<>>)))

StreamEntries(stream) == GetOr(stream, ValuesKey, JArr(<<>>)).items

\* the entries of all streams in the order the loops visit them
RECURSIVE AllEntries(_)
AllEntries(streams0) ==
    With(streams0, LAMBDA streams :
        IF streams = <<>> THEN <<>>
        ELSE StreamEntries(Head(streams)) \o AllEntries(Tail(streams)))

\* the exception of the first entry that raises one
RECURSIVE FirstEntryError(_)
FirstEntryError(entries0) ==
    With(entries0, LAMBDA entries :
        IF entries = <<>> THEN None
        ELSE IF ~IsNone(EntryError(Head(entries))) THEN EntryError(Head(entries))
        ELSE FirstEntryError(Tail(entries)))

\* lines 345-358: the markdown lines of one stream
MarkdownLines(stream, tz) ==
    <<<<"#", "#", "#", " ", "S", "t", "r", "e", "a", "m", ":", " ">>
      \o StreamLabels(stream) \o Newline>>
    \o [i \in 1..Len(StreamEntries(stream)) |->
          <<"*", "*">> \o EntryTime(StreamEntries(stream)[i], tz) \o <<"*", "*", ":", " ">>
          \o StreamEntries(stream)[i].items[2].s \o Newline]
    \o <<Newline>>

\* lines 360-373: the text lines of one stream
TextLines(stream, tz) ==
    <<<<"S", "t", "r", "e", "a", "m", ":", " ">> \o StreamLabels(stream)>>
    \o [i \in 1..Len(StreamEntries(stream)) |->
          EntryTime(StreamEntries(stream)[i], tz) \o <<":", " ">>
          \o StreamEntries(stream)[i].items[2].s]
    \o <<<<>>>>

RECURSIVE OutputLines(_, _, _)
OutputLines(streams0, markdown, tz) ==
    With(streams0, LAMBDA streams :
        IF streams = <<>> THEN <<>>
        ELSE (IF markdown THEN MarkdownLines(Head(streams), tz)
              ELSE TextLines(Head(streams), tz))
             \o OutputLines(Tail(streams), markdown, tz))

ErrorPrefix == <<"E", "r", "r", "o", "r", ":", " ">>

NoDataFound ==
    <<"N", "o", " ", "d", "a", "t", "a", " ", "f", "o", "u", "n", "d", " ", "i", "n", " ",
      "r", "e", "s", "u", "l", "t", "s">>

NoLogStreamsFound ==
    <<"N", "o", " ", "l", "o", "g", " ", "s", "t", "r", "e", "a", "m", "s", " ",
      "f", "o", "u", "n", "d">>

\* line 346: "if format_type == "markdown"", every other value takes the text branch
IsMarkdown(format_type) == format_type = "markdown"

\* src/server.py lines 319-375
format_loki_results(results, format_type, tz) ==
    IF HasKey(results, ErrorKey) THEN Return(ErrorPrefix \o Get(results, ErrorKey).s)
    ELSE IF ~HasKey(results, DataKey) \/ ~HasKey(Get(results, DataKey), ResultKey)
    THEN Return(NoDataFound)
    ELSE With(Get(Get(results, DataKey), ResultKey).items, LAMBDA streams :
        IF streams = <<>> THEN Return(NoLogStreamsFound)
        ELSE IF format_type = "json"
        THEN Return(JsonDumps(Get(Get(results, DataKey), ResultKey), 0))
        ELSE With(FirstEntryError(AllEntries(streams)), LAMBDA err :
            IF ~IsNone(err) THEN Raise("ValueError", Val(err), NoCause)
            ELSE Return(Join(OutputLines(streams, IsMarkdown(format_type), tz), Newline))))
(***************************************************************************)
(* Inputs of the gateway model.                                            *)
(***************************************************************************)
Datasource(type, id, uid) == [type |-> type, id |-> id, uid |-> uid]

\* datasource listings of the Grafana instance, in listing order
NoLokiListing == <<Datasource(PrometheusType, Some(1), Some(<<"p">>))>>

IdListing ==
    <<Datasource(PrometheusType, Some(1), Some(<<"p">>)),
      Datasource(LokiType, Some(2), Some(<<"a">>))>>

UidListing ==
    <<Datasource(LokiType, None, Some(<<"b">>)), Datasource(LokiType, Some(3), Some(<<"c">>))>>

BareListing ==
    <<Datasource(LokiType, None, None), Datasource(LokiType, Some(12), None)>>

Listings == {<<>>, NoLokiListing, IdListing, UidListing, BareListing}

GrafanaUrl == <<"h", "t", "t", "p", "s", ":", "/", "/", "g", ".", "i", "o">>

BaseUrls == {GrafanaUrl, GrafanaUrl \o <<"/", "/">>}

ApiKey == <<"k", "e", "y">>

Config(url, key) == [grafana_url |-> url, grafana_api_key |-> key]

\* process configurations: complete, without URL, without API key, without both
Configs ==
    {Config(GrafanaUrl \o <<"/">>, ApiKey), Config(<<>>, ApiKey), Config(GrafanaUrl, <<>>),
     Config(<<>>, <<>>)}

LogQL == <<"{", "a", "=", "1", "}">>

EmptyBody == [status |-> "success", data |-> [resultType |-> "streams", result |-> <<>>]]

LabelsBody == [status |-> "success", data |-> <<<<"a", "p", "p">>, <<"j", "o", "b">>>>]

DatasourceBody == Datasource(LokiType, Some(2), Some(<<"a">>))

LabelNames == {<<"a", "p", "p">>}

DatasourceIds == {2}

DatasourceNames == {<<"L", "o", "k", "i">>}

\* the environment's answers during one call
Env(listing, oList, o, body, tz) ==
    [listing |-> listing, oList |-> oList, o |-> o, body |-> body, tz |-> tz]

MaxResolves == 2

(***************************************************************************)
(* The gateway state machine: one long-lived GrafanaClient (gw) whose      *)
(* methods are called directly, and the tools, each of which builds its    *)
(* own client from the process configuration.  A call is atomic.           *)
(***************************************************************************)
NoCall ==
    [via |-> "none", op |-> "none", args |-> [none |-> TRUE], uidBefore |-> None, toolUidBefore |-> None,
     afterFailure |-> FALSE, made |-> None, reqs |-> <<>>, result |-> Return(<<>>),
     listed |-> None, resolved |-> None]

\* no line is under truncation
NoTruncation == [stage |-> "none", value |-> <<>>, n |-> 0, m |-> 0, once |-> <<>>, twice |-> <<>>]

\* nothing is being formatted
NoFormat ==
    [stage |-> "none", format_type |-> "", results |-> JObj(<<>>), out |-> Return(<<>>)]

\* no _get_loki_datasource_uid call is in progress
NoCalls == <<>>

ResolvingOps == {"_get_loki_datasource_uid", "query_loki", "get_loki_labels", "get_loki_label_values"}

\* a request for the datasource listing, GET <base_url>/api/datasources
IsListRequest(req) == EndsWith(req.url, ApiDatasources)

ListRequests(reqs) == Cardinality({i \in 1..Len(reqs) : IsListRequest(reqs[i])})

GatewayInit ==
    /\ gw \in {GrafanaClient(u, ApiKey) : u \in BaseUrls}
    /\ config \in Configs
    /\ datasources \in Listings
    /\ proc = "starting"
    /\ last = NoCall
    /\ okResolves = 0
    /\ okResolveLists = 0
    /\ toolUid = None

\* the last call was made on the long-lived client, needed the Loki identifier
\* and did not obtain it
FailedToResolve == last.via = "client" /\ last.op \in ResolvingOps /\ IsNone(last.resolved)

\* a method of the long-lived client was called with outcome r
ClientCalled(op, args, r) ==
    /\ proc = "running"
    /\ op \in ResolvingOps => okResolves < MaxResolves
    /\ gw' = r.client
    /\ last' = [via |-> "client", op |-> op, args |-> args,
                uidBefore |-> gw._loki_datasource_uid, toolUidBefore |-> toolUid,
                afterFailure |-> FailedToResolve, made |-> None, reqs |-> r.reqs, result |-> r.result, listed |-> r.listed,
                resolved |-> r.resolved]
    /\ okResolves' = IF IsNone(r.resolved) THEN okResolves ELSE okResolves + 1
    /\ okResolveLists' = IF IsNone(r.resolved) THEN okResolveLists
                         ELSE okResolveLists + ListRequests(r.reqs)
    /\ UNCHANGED <<config, datasources, proc, toolUid, hostTz, clock, time_in, time_out, trunc, calls, fmt>>

\* a tool was invoked with outcome r
ToolCalled(op, args, r) ==
    /\ proc = "running"
    /\ proc' = IF r.result.kind = "exit" THEN "exited" ELSE proc
    /\ last' = [via |-> "tool", op |-> op, args |-> args,
                uidBefore |-> None, toolUidBefore |-> toolUid,
                afterFailure |-> FALSE, made |-> r.client, reqs |-> r.reqs, result |-> r.result, listed |-> r.listed,
                resolved |-> r.resolved]
    /\ toolUid' = IF IsNone(toolUid) THEN r.resolved ELSE toolUid
    /\ UNCHANGED <<gw, config, datasources, okResolves, okResolveLists,
                   hostTz, clock, time_in, time_out, trunc, calls, fmt>>

NoArgs == [none |-> TRUE]

QueryArgs(start, end, max_per_line) ==
    [start |-> start, end |-> end, max_per_line |-> max_per_line]

ClientGetDatasources ==
    \E o \in HttpOutcomes :
        \E r \in {GrafanaClient_get_datasources(gw, datasources, o)} :
            ClientCalled("get_datasources", NoArgs, r)

ClientResolve ==
    \E oList \in ListOutcomes :
        \E r \in {_get_loki_datasource_uid(gw, datasources, oList)} :
            ClientCalled("_get_loki_datasource_uid", NoArgs, r)

\* query_loki calls drawn in the gateway model: <<start, end, max_per_line, body>>
PlainQueries == {<<None, None, 100, EmptyBody>>, <<Some(Rel(5, "m")), None, 100, EmptyBody>>}

ClientQueried(q, oList, o) ==
    \E r \in {GrafanaClient_query_loki(gw, LogQL, q[1], q[2], 100, "backward", q[3],
                                        Env(datasources, oList, o, q[4], hostTz))} :
        ClientCalled("query_loki", QueryArgs(q[1], q[2], q[3]), r)

ClientQueryLoki ==
    \E q \in PlainQueries, oList \in ListOutcomes, o \in HttpOutcomes :
        ClientQueried(q, oList, o)

ClientGetLokiLabels ==
    \E oList \in ListOutcomes, o \in HttpOutcomes :
        \E r \in {GrafanaClient_get_loki_labels(gw,
                       Env(datasources, oList, o, LabelsBody, hostTz))} :
            ClientCalled("get_loki_labels", NoArgs, r)

ClientGetLokiLabelValues ==
    \E label \in LabelNames, oList \in ListOutcomes, o \in HttpOutcomes :
        \E r \in {GrafanaClient_get_loki_label_values(gw, label,
                       Env(datasources, oList, o, LabelsBody, hostTz))} :
            ClientCalled("get_loki_label_values", [label |-> label], r)

ClientGetDatasourceById ==
    \E id \in DatasourceIds, o \in HttpOutcomes :
        \E r \in {GrafanaClient_get_datasource_by_id(gw, id, o, DatasourceBody)} :
            ClientCalled("get_datasource_by_id", [datasource_id |-> id], r)

ClientGetDatasourceByName ==
    \E name \in DatasourceNames, o \in HttpOutcomes :
        \E r \in {GrafanaClient_get_datasource_by_name(gw, name, o, DatasourceBody)} :
            ClientCalled("get_datasource_by_name", [name |-> name], r)

ToolQueried(q, oList, o) ==
    \E r \in {query_loki(config, LogQL, q[1], q[2], 100, "backward", q[3],
                          Env(datasources, oList, o, q[4], hostTz))} :
        ToolCalled("query_loki", QueryArgs(q[1], q[2], q[3]), r)

ToolQueryLoki ==
    \E q \in PlainQueries, oList \in ListOutcomes, o \in HttpOutcomes :
        ToolQueried(q, oList, o)

ToolGetLokiLabels ==
    \E oList \in ListOutcomes, o \in HttpOutcomes :
        \E r \in {get_loki_labels(config, Env(datasources, oList, o, LabelsBody, hostTz))} :
            ToolCalled("get_loki_labels", NoArgs, r)

ToolGetLokiLabelValues ==
    \E label \in LabelNames, oList \in ListOutcomes, o \in HttpOutcomes :
        \E r \in {get_loki_label_values(config, label,
                       Env(datasources, oList, o, LabelsBody, hostTz))} :
            ToolCalled("get_loki_label_values", [label |-> label], r)

ToolGetDatasources ==
    \E o \in HttpOutcomes :
        \E r \in {get_datasources(config, datasources, o)} :
            ToolCalled("get_datasources", NoArgs, r)

ToolGetDatasourceById ==
    \E id \in DatasourceIds, o \in HttpOutcomes :
        \E r \in {get_datasource_by_id(config, id, o, DatasourceBody)} :
            ToolCalled("get_datasource_by_id", [datasource_id |-> id], r)

ToolGetDatasourceByName ==
    \E name \in DatasourceNames, o \in HttpOutcomes :
        \E r \in {get_datasource_by_name(config, name, o, DatasourceBody)} :
            ToolCalled("get_datasource_by_name", [name |-> name], r)

\* lines 607-635: mcp.run() is patched_run, which runs update_query_loki_description
\* and then the server loop.  sys.exit passes "except Exception", so the process ends
\* there; every other outcome leaves the process serving.
Startup ==
    /\ proc = "starting"
    /\ \E oList \in ListOutcomes, o \in HttpOutcomes :
          \E r \in {update_query_loki_description(config,
                        Env(datasources, oList, o, LabelsBody, hostTz))} :
            /\ proc' = IF r.result.kind = "exit" THEN "exited" ELSE "running"
            /\ last' = [via |-> "run", op |-> "update_query_loki_description",
                        args |-> NoArgs, uidBefore |-> None, toolUidBefore |-> toolUid,
                        afterFailure |-> FALSE, made |-> r.client, reqs |-> r.reqs, result |-> r.result,
                        listed |-> r.listed, resolved |-> r.resolved]
    /\ UNCHANGED <<gw, config, datasources, okResolves, okResolveLists, toolUid,
                   hostTz, clock, time_in, time_out, trunc, calls, fmt>>

\* datasources are added to or removed from the Grafana instance
UpstreamChange ==
    /\ proc = "running"
    /\ datasources' \in Listings \ {datasources}
    /\ UNCHANGED <<gw, config, proc, last, okResolves, okResolveLists, toolUid,
                   hostTz, clock, time_in, time_out, trunc, calls, fmt>>

Next ==
    \/ Startup
    \/ ClientGetDatasources
    \/ ClientResolve
    \/ ClientQueryLoki
    \/ ClientGetLokiLabels
    \/ ClientGetLokiLabelValues
    \/ ClientGetDatasourceById
    \/ ClientGetDatasourceByName
    \/ ToolQueryLoki
    \/ ToolGetLokiLabels
    \/ ToolGetLokiLabelValues
    \/ ToolGetDatasources
    \/ ToolGetDatasourceById
    \/ ToolGetDatasourceByName
    \/ UpstreamChange

vars == <<gw, config, datasources, proc, last, okResolves, okResolveLists, toolUid,
          hostTz, clock, time_in, time_out, trunc, calls, fmt>>

Init ==
    /\ GatewayInit
    /\ hostTz = 0
    /\ clock = ClockStart
    /\ time_in = <<>>
    /\ time_out = NoOutput
    /\ trunc = NoTruncation
    /\ calls = NoCalls
    /\ fmt = NoFormat

Spec == Init /\ [][Next]_vars

(***************************************************************************)
(* SpecTime: a time expression is drawn at the start and the time          *)
(* functions are applied to it, on hosts in several time zones.  The       *)
(* gateway is idle.                                                        *)
(***************************************************************************)
gatewayVars == <<gw, config, datasources, proc, last, okResolves, okResolveLists, toolUid>>

TimeInit ==
    /\ gw = GrafanaClient(GrafanaUrl, ApiKey)
    /\ config = Config(GrafanaUrl, ApiKey)
    /\ datasources = IdListing
    /\ proc = "running"
    /\ last = NoCall
    /\ okResolves = 0
    /\ okResolveLists = 0
    /\ toolUid = None
    /\ hostTz \in HostTzs
    /\ clock = ClockStart
    /\ time_in \in TimeInputs
    /\ time_out = NoOutput
    /\ trunc = NoTruncation
    /\ calls = NoCalls
    /\ fmt = NoFormat

\* parse_grafana_time(time_in)
ParseGrafanaTime ==
    /\ time_out' = [fn |-> "parse_grafana_time", at |-> clock, r |-> parse_grafana_time(time_in)]
    /\ UNCHANGED <<gatewayVars, trunc, calls, fmt, hostTz, clock, time_in>>

\* iso8601_to_unix_nano(time_in)
Iso8601ToUnixNano ==
    /\ time_out' = [fn |-> "iso8601_to_unix_nano", at |-> clock,
                     r |-> iso8601_to_unix_nano(time_in, hostTz)]
    /\ UNCHANGED <<gatewayVars, trunc, calls, fmt, hostTz, clock, time_in>>

\* the start/end handling of the query_loki tool, lines 582-600
ToolNormalize ==
    /\ time_out' = [fn |-> "tool", at |-> clock, r |-> ToolParseTime(Some(time_in), hostTz)]
    /\ UNCHANGED <<gatewayVars, trunc, calls, fmt, hostTz, clock, time_in>>

\* the start/end handling of GrafanaClient.query_loki, lines 131-148
ClientNormalize ==
    /\ time_out' = [fn |-> "client", at |-> clock, r |-> ClientTimeParam(time_in, hostTz)]
    /\ UNCHANGED <<gatewayVars, trunc, calls, fmt, hostTz, clock, time_in>>

\* the wall clock advances
Tick ==
    /\ clock < ClockStart + MaxTick
    /\ clock' = clock + 1
    /\ UNCHANGED <<gatewayVars, trunc, calls, fmt, hostTz, time_in, time_out>>

TimeNext ==
    \/ ParseGrafanaTime
    \/ Iso8601ToUnixNano
    \/ ToolNormalize
    \/ ClientNormalize
    \/ Tick

SpecTime == TimeInit /\ [][TimeNext]_vars

(***************************************************************************)
(* SpecQuery: query_loki, on the long-lived client and through the tool,   *)
(* over time ranges in every accepted syntax and over response bodies with *)
(* long, short and malformed entries.  The Grafana instance lists a Loki   *)
(* datasource and answers the listing.                                     *)
(***************************************************************************)
QueryStarts ==
    {None, Some(<<>>), Some(Rel(5, "m")), Some(StrNat(1710410400)),
     Some(IsoText(<<2024, 3, 14, 10, 0, 0>>, "T") \o <<"Z">>),
     Some(IsoText(<<2021, 1, 1, 0, 0, 0>>, "T")),
     Some(<<"i", "n", "v", "a", "l", "i", "d", "-", "f", "o", "r", "m", "a", "t">>)}

QueryEnds ==
    {None, Some(Now),
     Some(IsoText(<<2024, 3, 14, 11, 0, 0>>, "T") \o <<"+", "0", "0", ":", "0", "0">>)}

LongLine == <<"a", "b", "c", "d", "e", "f", "g", "h">>

Labels == [app |-> <<"w", "e", "b">>]

\* a stream of [timestamp, line] entries: a long line, a short one, an empty one
LinesBody ==
    [status |-> "success",
     data |-> [resultType |-> "streams",
               result |-> <<[stream |-> Labels,
                             values |-> <<<<<<"1">>, LongLine>>, <<<<"2">>, <<"a", "b">>>>,
                                          <<<<"3">>, <<>>>>>>]>>]]

\* entries of other lengths than two, and a stream without values
OddBody ==
    [status |-> "success",
     data |-> [resultType |-> "streams",
               result |-> <<[stream |-> Labels,
                             values |-> <<<<<<"1">>>>, <<>>, <<<<"2">>, LongLine, <<"x">>>>>>],
                            [stream |-> Labels]>>]]

\* a body without "data"
ErrorBody == [status |-> "error"]

QueryBodies == {EmptyBody, LinesBody, OddBody, ErrorBody}

QueryLengths == {100, 3, 0, 0 - 2}

QueryCalls ==
    {<<start, end, 100, EmptyBody>> : start \in QueryStarts, end \in QueryEnds}
    \cup {<<None, None, n, body>> : n \in QueryLengths, body \in QueryBodies}

QueryHostTzs == {0, 32400}

QueryInit ==
    /\ gw = GrafanaClient(GrafanaUrl, ApiKey)
    /\ config = Config(GrafanaUrl, ApiKey)
    /\ datasources = IdListing
    /\ proc = "running"
    /\ last = NoCall
    /\ okResolves = 0
    /\ okResolveLists = 0
    /\ toolUid = None
    /\ hostTz \in QueryHostTzs
    /\ clock = ClockStart
    /\ time_in = <<>>
    /\ time_out = NoOutput
    /\ trunc = NoTruncation
    /\ calls = NoCalls
    /\ fmt = NoFormat

\* every call answered 2xx, and the calls over bodies with every failure
FailingCalls == {<<None, None, n, LinesBody>> : n \in QueryLengths}

QueryOutcomes(q) == IF q \in FailingCalls THEN HttpOutcomes ELSE {HttpOk}

QueryClient ==
    \E q \in QueryCalls : \E o \in QueryOutcomes(q) : ClientQueried(q, HttpOk, o)

QueryTool ==
    \E q \in QueryCalls : \E o \in QueryOutcomes(q) : ToolQueried(q, HttpOk, o)

QueryNext == QueryClient \/ QueryTool

SpecQuery == QueryInit /\ [][QueryNext]_vars


(***************************************************************************)
(* SpecTruncate: the truncation rule of query_loki (lines 163-171) as a    *)
(* function of one [timestamp, line] entry, applied at a threshold n and   *)
(* then, to its own result, at a threshold m >= n.                         *)
(***************************************************************************)
MaxLine == 5

MaxThreshold == 6

\* lines of letters and dots, up to MaxLine characters
TruncLines == UNION {[1..k -> {"a", "."}] : k \in 0..MaxLine}

TruncThresholds == {<<n, m>> \in (1..MaxThreshold) \X (1..MaxThreshold) : n <= m}

TruncateInit ==
    /\ gw = GrafanaClient(GrafanaUrl, ApiKey)
    /\ config = Config(GrafanaUrl, ApiKey)
    /\ datasources = IdListing
    /\ proc = "running"
    /\ last = NoCall
    /\ okResolves = 0
    /\ okResolveLists = 0
    /\ toolUid = None
    /\ hostTz = 0
    /\ clock = ClockStart
    /\ time_in = <<>>
    /\ time_out = NoOutput
    /\ \E line \in TruncLines, nm \in TruncThresholds :
          trunc = [stage |-> "input", value |-> <<<<"1">>, line>>, n |-> nm[1], m |-> nm[2],
                   once |-> <<>>, twice |-> <<>>]
    /\ calls = NoCalls
    /\ fmt = NoFormat

\* the entry is truncated at n
TruncateOnce ==
    /\ trunc.stage = "input"
    /\ trunc' = [trunc EXCEPT !.stage = "once", !.once = TruncateValue(trunc.value, trunc.n)]
    /\ UNCHANGED <<gatewayVars, hostTz, clock, time_in, time_out, calls, fmt>>

\* the truncated entry is truncated at m
TruncateAgain ==
    /\ trunc.stage = "once"
    /\ trunc' = [trunc EXCEPT !.stage = "twice", !.twice = TruncateValue(trunc.once, trunc.m)]
    /\ UNCHANGED <<gatewayVars, hostTz, clock, time_in, time_out, calls, fmt>>

TruncateNext == TruncateOnce \/ TruncateAgain

SpecTruncate == TruncateInit /\ [][TruncateNext]_vars

(***************************************************************************)
(* SpecRace: _get_loki_datasource_uid (lines 61-86) called on the one      *)
(* client gw by several threads at once, all of them before the identifier *)
(* is memoized.  The method takes no lock, so its steps interleave: the    *)
(* test of the memo (line 67), the listing request (line 70) with the scan *)
(* of the answer, the write of the memo (lines 77, 83) and the read of the *)
(* memo for the return value (lines 68, 78).  The listing of the Grafana   *)
(* instance may change between two requests.                               *)
(***************************************************************************)
MaxThreads == 2

Threads == 1..MaxThreads

ThreadState(pc, found, ret) == [pc |-> pc, found |-> found, ret |-> ret]

\* lines 71-84: TRUE when the scan leaves through the id branch, whose return
\* statement reads self._loki_datasource_uid back (line 78); FALSE when it leaves
\* through the uid branch, which returns its local variable (line 84)
RECURSIVE LokiScanById(_)
LokiScanById(list0) ==
    With(list0, LAMBDA list :
        IF list = <<>> THEN FALSE
        ELSE With(Head(list), LAMBDA ds :
            IF ds.type = LokiType
            THEN IF ~IsNone(ds.id) THEN TRUE
                 ELSE IF ~IsNone(ds.uid) THEN FALSE
                 ELSE LokiScanById(Tail(list))
            ELSE LokiScanById(Tail(list))))

RaceInit ==
    /\ gw = GrafanaClient(GrafanaUrl, ApiKey)
    /\ config = Config(GrafanaUrl, ApiKey)
    /\ datasources \in Listings
    /\ proc = "running"
    /\ last = NoCall
    /\ okResolves = 0
    /\ okResolveLists = 0
    /\ toolUid = None
    /\ hostTz = 0
    /\ clock = ClockStart
    /\ time_in = <<>>
    /\ time_out = NoOutput
    /\ trunc = NoTruncation
    /\ fmt = NoFormat
    /\ calls = [t \in Threads |-> ThreadState("check", None, Return(<<>>))]

raceIdle == <<config, proc, last, okResolves, okResolveLists, toolUid,
              hostTz, clock, time_in, time_out, trunc, fmt>>

\* line 67: "if self._loki_datasource_uid is not None"
RaceCheck(t) ==
    /\ calls[t].pc = "check"
    /\ calls' = [calls EXCEPT ![t].pc = IF IsCached(gw) THEN "return" ELSE "list"]
    /\ UNCHANGED <<gw, datasources, raceIdle>>

\* lines 70-86 up to the assignment: the listing request and the scan of its answer
RaceList(t) ==
    /\ calls[t].pc = "list"
    /\ \E oList \in ListOutcomes :
          \E got \in {GrafanaClient_get_datasources(gw, datasources, oList)} :
              calls' = [calls EXCEPT ![t] =
                  IF got.result.kind = "raise" THEN ThreadState("done", None, got.result)
                  ELSE IF IsNone(LokiScan(got.result.value.datasources))
                       THEN ThreadState("done", None,
                                        NotFound(gw, got.reqs, datasources).result)
                       ELSE ThreadState(IF LokiScanById(got.result.value.datasources)
                                        THEN "write_id" ELSE "write_uid",
                                        LokiScan(got.result.value.datasources),
                                        Return(<<>>))]
    /\ UNCHANGED <<gw, datasources, raceIdle>>

\* line 77, "self._loki_datasource_uid = str(ds_id)"; the return statement follows
RaceWriteId(t) ==
    /\ calls[t].pc = "write_id"
    /\ gw' = [gw EXCEPT !._loki_datasource_uid = calls[t].found]
    /\ calls' = [calls EXCEPT ![t].pc = "return"]
    /\ UNCHANGED <<datasources, raceIdle>>

\* lines 83-84, "self._loki_datasource_uid = uid; return cast(str, uid)"
RaceWriteUid(t) ==
    /\ calls[t].pc = "write_uid"
    /\ gw' = [gw EXCEPT !._loki_datasource_uid = calls[t].found]
    /\ calls' = [calls EXCEPT ![t] = ThreadState("done", calls[t].found,
                                                 Return(Val(calls[t].found)))]
    /\ UNCHANGED <<datasources, raceIdle>>

\* lines 68 and 78, "return self._loki_datasource_uid"
RaceReturn(t) ==
    /\ calls[t].pc = "return"
    /\ calls' = [calls EXCEPT ![t] = ThreadState("done", calls[t].found,
                                                 Return(Val(gw._loki_datasource_uid)))]
    /\ UNCHANGED <<gw, datasources, raceIdle>>

RaceStep == \E t \in Threads :
    RaceCheck(t) \/ RaceList(t) \/ RaceWriteId(t) \/ RaceWriteUid(t) \/ RaceReturn(t)

\* the listing changes while calls are in progress
RaceUpstreamChange ==
    /\ \E t \in Threads : calls[t].pc # "done"
    /\ datasources' \in Listings \ {datasources}
    /\ UNCHANGED <<gw, calls, raceIdle>>

RaceNext == RaceStep \/ RaceUpstreamChange

SpecRace == RaceInit /\ [][RaceNext]_vars

(***************************************************************************)
(* SpecFormat: format_loki_results applied to query results of every shape *)
(* the function distinguishes, in each format type and one outside them.   *)
(***************************************************************************)
StatusPair == Pair(<<"s", "t", "a", "t", "u", "s">>, JStr(<<"s", "u", "c", "c", "e", "s", "s">>))

ResultTypePair == Pair(<<"r", "e", "s", "u", "l", "t", "T", "y", "p", "e">>, JStr(<<"s", "t", "r", "e", "a", "m", "s">>))

Entry(timestamp, line) == JArr(<<JStr(timestamp), JStr(line)>>)

Stream(labels, entries) == JObj(<<Pair(StreamKey, JObj(labels)), Pair(ValuesKey, JArr(entries))>>)

QueryResult(streams) ==
    JObj(<<StatusPair, Pair(DataKey, JObj(<<ResultTypePair, Pair(ResultKey, JArr(streams))>>))>>)

WebStream ==
    Stream(<<Pair(<<"a", "p", "p">>, JStr(<<"w", "e", "b">>)), Pair(<<"e", "n", "v">>, JStr(<<"p", "r", "o", "d">>))>>,
           <<Entry(<<"1", "7", "1", "0", "4", "1", "0", "4", "0", "0", "0", "0", "0", "0", "0", "0", "0", "0", "0">>, <<"h", "e", "l", "l", "o">>),
             Entry(<<"1", "7", "1", "0", "4", "1", "0", "4", "6", "1", "0", "0", "0", "0", "0", "0", "0", "0", "0">>, <<"s", "a", "y", " ", "\"", "h", "i", "\"">>)>>)

\* a stream without labels and without values
BareStream == JObj(<<>>)

FormatResults ==
    {JObj(<<Pair(ErrorKey, JStr(<<"b", "o", "o", "m">>)), Pair(<<"s", "t", "a", "t", "u", "s">>, JStr(<<"e", "r", "r", "o", "r">>))>>),
     JObj(<<StatusPair>>),
     JObj(<<StatusPair, Pair(DataKey, JObj(<<ResultTypePair>>))>>),
     QueryResult(<<>>),
     JObj(<<Pair(DataKey, JObj(<<Pair(ResultKey, JArr(<<>>))>>))>>),
     QueryResult(<<WebStream>>),
     QueryResult(<<WebStream, BareStream>>),
     QueryResult(<<Stream(<<>>, <<JArr(<<JStr(<<"1", "7", "1", "0", "4", "1", "0", "4", "0", "0", "0", "0", "0", "0", "0", "0", "0", "0", "0">>)>>)>>)>>),
     QueryResult(<<Stream(<<>>, <<Entry(<<"a", "b", "c">>, <<"h", "e", "l", "l", "o">>)>>)>>)}

FormatTypes == {"text", "markdown", "json", "xml"}

FormatInit ==
    /\ gw = GrafanaClient(GrafanaUrl, ApiKey)
    /\ config = Config(GrafanaUrl, ApiKey)
    /\ datasources = IdListing
    /\ proc = "running"
    /\ last = NoCall
    /\ okResolves = 0
    /\ okResolveLists = 0
    /\ toolUid = None
    /\ hostTz \in HostTzs
    /\ clock = ClockStart
    /\ time_in = <<>>
    /\ time_out = NoOutput
    /\ trunc = NoTruncation
    /\ calls = NoCalls
    /\ \E results \in FormatResults, format_type \in FormatTypes :
          fmt = [stage |-> "input", format_type |-> format_type, results |-> results,
                 out |-> Return(<<>>)]

\* the format_loki_results tool is invoked
FormatLokiResults ==
    /\ fmt.stage = "input"
    /\ fmt' = [fmt EXCEPT !.stage = "done",
                          !.out = format_loki_results(fmt.results, fmt.format_type, hostTz)]
    /\ UNCHANGED <<gatewayVars, hostTz, clock, time_in, time_out, trunc, calls>>

FormatNext == FormatLokiResults

SpecFormat == FormatInit /\ [][FormatNext]_vars
(***************************************************************************)
(* Properties of the Loki datasource resolution (Spec).                    *)
(***************************************************************************)
LastResolves == last.op \in ResolvingOps

LastProxyUrl == last.reqs[Len(last.reqs)].url

\* C1: on the long-lived client, once a resolution of the Loki datasource has
\* succeeded the identifier is memoized: every later resolution - direct, or inside
\* query_loki, get_loki_labels, get_loki_label_values - issues no datasource-list
\* request, yields the memoized identifier and leaves the memo as it was; all the
\* successful resolutions together have issued exactly one datasource-list request.
C1_Memoized ==
    /\ (okResolves >= 1) => (IsCached(gw) /\ okResolveLists = 1)
    /\ (last.via = "client" /\ LastResolves /\ ~IsNone(last.uidBefore)) =>
          /\ ListRequests(last.reqs) = 0
          /\ last.resolved = last.uidBefore
          /\ gw._loki_datasource_uid = last.uidBefore
          /\ IF last.op = "_get_loki_datasource_uid"
             THEN last.result = Return(Val(last.uidBefore))
             ELSE /\ Len(last.reqs) = 1
                  /\ StartsWith(LastProxyUrl, ProxyUrl(gw, Val(last.uidBefore)) \o LokiApi)

\* two successful resolutions have been made, the second one inside get_loki_labels
C1_Witness ==
    /\ okResolves = 2
    /\ last.via = "client" /\ last.op = "get_loki_labels"
    /\ ~IsNone(last.uidBefore)
    /\ last.result.kind = "return"

\* C2 (as the specification states it): a tool invocation that follows a tool
\* invocation which resolved the Loki datasource reuses that identifier and issues
\* no datasource-list request.
C2_ToolsShareCache ==
    (last.via = "tool" /\ LastResolves /\ ~IsNone(last.toolUidBefore)) =>
        /\ ListRequests(last.reqs) = 0
        /\ last.resolved = last.toolUidBefore

Usable(ds) == ds.type = LokiType /\ (~IsNone(ds.id) \/ ~IsNone(ds.uid))

IsLoki(ds) == ds.type = LokiType

\* the first entry of a listing that satisfies P
First(list, P(_)) ==
    list[CHOOSE i \in 1..Len(list) : P(list[i]) /\ \A j \in 1..(i - 1) : ~P(list[j])]

\* str(id) when the entry has an id, else its uid
IdentifierOf(ds) == IF ~IsNone(ds.id) THEN Some(Str(Val(ds.id))) ELSE ds.uid

\* a resolution that read the listing from Grafana
LastListed == LastResolves /\ ~IsNone(last.listed)

\* C3 (amended): when the cache is unset and the listing succeeds, the resolution
\* yields the identifier of the first entry in listing order that is of type loki
\* and has an id or a uid - str(id) if it has an id, else its uid - and the
\* long-lived client caches it.
C3_FirstUsableLoki ==
    (LastListed /\ \E i \in 1..Len(Val(last.listed)) : Usable(Val(last.listed)[i])) =>
        /\ last.resolved = IdentifierOf(First(Val(last.listed), Usable))
        /\ last.via = "client" => gw._loki_datasource_uid = last.resolved

\* the first loki entry has a uid and no id, a later one has an id: the uid is taken
C3_Witness ==
    /\ last.via = "client" /\ LastListed
    /\ Val(last.listed) = UidListing
    /\ last.resolved = Some(<<"b">>)
    /\ gw._loki_datasource_uid = Some(<<"b">>)

\* C3 (as the specification states it): the identifier is that of the first
\* loki-typed entry of the listing, whatever fields it has; no later entry is chosen.
C3_FirstLoki ==
    (LastListed /\ \E i \in 1..Len(Val(last.listed)) : IsLoki(Val(last.listed)[i])) =>
        last.resolved = IdentifierOf(First(Val(last.listed), IsLoki))

\* C4: when the listing succeeds and holds no entry of type loki, the resolution
\* raises ValueError("No Loki datasource found"): it yields no identifier, caches
\* none and no request follows the listing.
C4_NotFound ==
    (LastListed /\ \A i \in 1..Len(Val(last.listed)) : ~IsLoki(Val(last.listed)[i])) =>
        /\ last.result = Raise("ValueError", "No Loki datasource found", NoCause)
        /\ IsNone(last.resolved)
        /\ Len(last.reqs) = 1
        /\ last.via = "client" => ~IsCached(gw)

\* get_loki_labels found only a Prometheus datasource listed
C4_Witness ==
    /\ last.op = "get_loki_labels" /\ LastListed
    /\ Val(last.listed) = NoLokiListing
    /\ last.result.kind = "raise"

(***************************************************************************)
(* Properties of query_loki (SpecQuery).                                   *)
(***************************************************************************)
\* the last call was a query_loki that got as far as the query_range request
LastQueried ==
    /\ last.op = "query_loki"
    /\ last.reqs # <<>>
    /\ ~IsNone(last.reqs[Len(last.reqs)].params)

LastParams == Val(last.reqs[Len(last.reqs)].params)

\* the parameter is present and is the string s
IsStrParam(p, s) == ~IsNone(p) /\ Val(p).t = "str" /\ Val(p).v = s

\* C5: time-range defaulting of query_loki, on the client and through the tool:
\* start given and end omitted sends end = "now"; both omitted sends start =
\* "now-1h" and end = "now"; end given and start omitted sends no start; both given
\* sends both.  The request always carries end.
C5_TimeRangeDefaults ==
    LastQueried =>
        /\ ~IsNone(LastParams.end)
        /\ (~IsNone(last.args.start) /\ IsNone(last.args.end)) =>
              (~IsNone(LastParams.start) /\ IsStrParam(LastParams.end, Now))
        /\ (IsNone(last.args.start) /\ IsNone(last.args.end)) =>
              (IsStrParam(LastParams.start, Rel(1, "h")) /\ IsStrParam(LastParams.end, Now))
        /\ (IsNone(last.args.start) /\ ~IsNone(last.args.end)) => IsNone(LastParams.start)
        /\ (~IsNone(last.args.start) /\ ~IsNone(last.args.end)) => ~IsNone(LastParams.start)

\* the client was queried with a start and without an end, and the request was sent
C5_Witness ==
    /\ LastQueried /\ last.via = "client"
    /\ last.args.start = Some(Rel(5, "m")) /\ IsNone(last.args.end)
    /\ IsStrParam(LastParams.start, Rel(5, "m")) /\ IsStrParam(LastParams.end, Now)

(***************************************************************************)
(* Properties of the time functions (SpecTime).                            *)
(***************************************************************************)
Parsed == time_out.fn = "parse_grafana_time"

UnitSeconds(u) ==
    CASE u = "s" -> 1 [] u = "m" -> 60 [] u = "h" -> 3600 [] u = "d" -> 86400
      [] u = "w" -> 7 * 86400 [] u = "M" -> 30 * 86400 [] u = "y" -> 365 * 86400

\* the seconds a relative expression reaches back; 0 for "" and "now"
RelSeconds(s) ==
    IF s \in {<<>>, Now} THEN 0
    ELSE ToInt(SubSeq(s, 5, Len(s) - 1)) * UnitSeconds(s[Len(s)])

\* s is a digit string of nanoseconds since the epoch that lies in second sec
IsNanoStringIn(s, sec) ==
    Len(s) >= 18 /\ IsDigit(s) /\ ToInt(SubSeq(s, 1, Len(s) - 9)) = sec

\* C6 (as the specification states it): for "", "now" and now-<N><unit>,
\* parse_grafana_time returns a digit string of nanoseconds since the epoch, in
\* the second current time - N * unit.
C6_RelativeToNanos ==
    (Parsed /\ time_in \in {<<>>, Now} \cup RelInputs) =>
        /\ time_out.r.kind = "str"
        /\ IsNanoStringIn(time_out.r.s, time_out.at - RelSeconds(time_in))

\* seconds written in digits s, as nanoseconds
SecondsToNanos(s) == IF ToInt(s) = 0 THEN <<"0">> ELSE StrNat(ToInt(s)) \o Pad(0, 9)

\* C7 (as the specification states it): an all-digit input of at most 10 digits is
\* returned multiplied by 10^9, a longer one unchanged.
C7_DigitsToNanos ==
    (Parsed /\ IsDigit(time_in)) =>
        /\ time_out.r.kind = "str"
        /\ time_out.r.s = IF Len(time_in) <= 10 THEN SecondsToNanos(time_in) ELSE time_in

\* the nanoseconds since the epoch of the instant an aware ISO-8601 text denotes
ExactNano(s) ==
    With(FromIsoFormat(ReplaceZ(s)), LAMBDA dt :
        [sec |-> EpochSeconds(dt, 0), ns |-> dt.microsecond * 1000])

\* C8 (as the specification states it): an ISO-8601 text with "Z" or a UTC offset
\* becomes the nanoseconds since the epoch of its instant, as the digit string
\* parse_grafana_time returns and as the start/end value the client sends.
C8_AwareIsoToNanos ==
    (time_in \in AwareIsoInputs) =>
        /\ Parsed =>
              (time_out.r.kind = "str" /\ time_out.r.s = StrNano(ExactNano(time_in)))
        /\ time_out.fn = "client" =>
              (time_out.r.t = "int" /\ time_out.r.v = ExactNano(time_in))

\* C9 (as the specification states it): a naive ISO-8601 text (date, "T", time)
\* normalizes, on any host, to the value of the same text followed by "Z".
C9_NaiveIsUtc ==
    (time_out.fn = "tool" /\ time_in \in NaiveIsoInputs /\ time_in[11] = "T") =>
        time_out.r = ToolParseTime(Some(time_in \o <<"Z">>), hostTz)

C11_TotalWithNowFallback ==
    Parsed =>
        /\ time_out.r.kind \in {"str", "datetime"}
        /\ (time_in \in BadUnitInputs \cup GarbageInputs) =>
              time_out.r = parse_grafana_time(Now)

\* "invalid-format" was parsed and gave what "now" gives
C11_Witness ==
    /\ Parsed
    /\ time_in = <<"i", "n", "v", "a", "l", "i", "d", "-", "f", "o", "r", "m", "a", "t">>
    /\ time_out.r = parse_grafana_time(Now)

\* C12: GrafanaClient.query_loki sends a start or end that begins with "now" or
\* consists of digits only to the query_range request as the same string.
C12_RelativeAndDigitsUnchanged ==
    (LastQueried /\ last.via = "client") =>
        /\ \A t \in {last.args.start} :
              (~IsNone(t) /\ (StartsWith(Val(t), Now) \/ IsDigit(Val(t)))) =>
                  IsStrParam(LastParams.start, Val(t))
        /\ \A t \in {last.args.end} :
              (~IsNone(t) /\ (StartsWith(Val(t), Now) \/ IsDigit(Val(t)))) =>
                  IsStrParam(LastParams.end, Val(t))

\* the client was queried from the Unix timestamp "1710410400" to "now"
C12_Witness ==
    /\ LastQueried /\ last.via = "client"
    /\ last.args.start = Some(StrNat(1710410400)) /\ last.args.end = Some(Now)
    /\ IsStrParam(LastParams.start, StrNat(1710410400))
    /\ IsStrParam(LastParams.end, Now)

\* the last call was a query_loki whose query_range request was answered 2xx
QuerySucceeded == LastQueried /\ last.result.kind = "return"

\* the body the Grafana instance sent in answer to the query_range request
UpstreamBody == Val(last.reqs[Len(last.reqs)].body)

HasResult(b) == "data" \in DOMAIN b /\ "result" \in DOMAIN b.data

\* <<i, j>>: entry j of stream i has at least 2 elements
LinePositions(b) ==
    IF ~HasResult(b) THEN {}
    ELSE UNION {{<<i, j>> : j \in {k \in 1..Len(b.data.result[i].values) :
                                      Len(b.data.result[i].values[k]) >= 2}} :
                i \in {k \in 1..Len(b.data.result) : "values" \in DOMAIN b.data.result[k]}}

LineAt(b, p) == b.data.result[p[1]].values[p[2]][2]

\* C13: after a successful query_loki with max_per_line > 0, every entry with at
\* least 2 elements of every returned stream holds the first max_per_line
\* characters of the upstream line followed by "..." when the upstream line was
\* longer than max_per_line, and the upstream line itself otherwise.
C13_TruncatedLines ==
    (QuerySucceeded /\ last.args.max_per_line > 0) =>
        /\ LinePositions(last.result.value) = LinePositions(UpstreamBody)
        /\ \A p \in LinePositions(UpstreamBody) :
              LineAt(last.result.value, p) =
                  IF Len(LineAt(UpstreamBody, p)) > last.args.max_per_line
                  THEN SubSeq(LineAt(UpstreamBody, p), 1, last.args.max_per_line)
                       \o <<".", ".", ".">>
                  ELSE LineAt(UpstreamBody, p)

\* a query with max_per_line = 3 returned "abc..." for "abcdefgh" and "ab" for "ab"
C13_Witness ==
    /\ QuerySucceeded /\ last.args.max_per_line = 3
    /\ UpstreamBody = LinesBody
    /\ LineAt(last.result.value, <<1, 1>>) = <<"a", "b", "c", ".", ".", ".">>
    /\ LineAt(last.result.value, <<1, 2>>) = <<"a", "b">>

\* C14: a max_per_line of zero or below disables truncation: a successful
\* query_loki returns the body exactly as the Grafana instance sent it.
C14_NonPositiveUnlimited ==
    (QuerySucceeded /\ last.args.max_per_line <= 0) => last.result.value = UpstreamBody

\* C15: truncation at a fixed threshold n > 0 is idempotent: an entry whose line
\* has at most n characters is left as it is, and truncating the truncated entry
\* at n again changes nothing.
C15_Idempotent ==
    /\ (trunc.stage \in {"once", "twice"} /\ Len(trunc.value[2]) <= trunc.n) =>
          trunc.once = trunc.value
    /\ (trunc.stage = "twice" /\ trunc.m = trunc.n) => trunc.twice = trunc.once

\* "aaaaa" was truncated at 2 to "aa..." and truncated at 2 again
C15_Witness ==
    /\ trunc.stage = "twice" /\ trunc.n = 2 /\ trunc.m = 2
    /\ trunc.value[2] = <<"a", "a", "a", "a", "a">>
    /\ trunc.once[2] = <<"a", "a", ".", ".", ".">>
    /\ trunc.twice = trunc.once

\* C16: truncating at n and then at a threshold m >= n gives what truncating at n
\* alone gives, provided the line has at most n characters, or m = n, or
\* m >= n + 3.
C16_ReTruncateNoOp ==
    (trunc.stage = "twice"
     /\ (Len(trunc.value[2]) <= trunc.n \/ trunc.m = trunc.n \/ trunc.m >= trunc.n + 3)) =>
        trunc.twice = trunc.once

\* "aaaaa" was truncated at 1 to "a..." and then at 4, which left "a..."
C16_Witness ==
    /\ trunc.stage = "twice" /\ trunc.n = 1 /\ trunc.m = 4
    /\ trunc.value[2] = <<"a", "a", "a", "a", "a">>
    /\ trunc.once[2] = <<"a", ".", ".", ".">>
    /\ trunc.twice = trunc.once

\* C16 as stated: for all thresholds 0 < n <= m, truncating at n and then at m
\* gives what truncating at n alone gives.
C16_AnyLargerThreshold ==
    (trunc.stage = "twice" /\ 0 < trunc.n /\ trunc.n <= trunc.m) => trunc.twice = trunc.once

\* what came back for the last request of the last call
LastOutcome == last.reqs[Len(last.reqs)].outcome

\* C17: whenever the query_range request of query_loki, on the client or through
\* the tool, gets a non-2xx response or no response, the call raises ValueError
\* "Error querying Loki: ..." from the request's exception and returns nothing; a
\* call that returns a result had its query_range request answered 2xx.
C17_QueryFailureSurfaces ==
    LastQueried =>
        /\ LastOutcome.kind # "ok" =>
              /\ last.result.kind = "raise"
              /\ last.result.exc = "ValueError"
              /\ last.result.msg = "Error querying Loki"
              /\ last.result.cause = LastOutcome
        /\ last.result.kind = "return" => LastOutcome.kind = "ok"

\* the query_range request was answered 502 and the call raised
C17_Witness ==
    /\ LastQueried
    /\ LastOutcome = BadGatewayResponse
    /\ last.result.kind = "raise" /\ last.result.msg = "Error querying Loki"

GatewayOps ==
    {"get_datasources", "get_datasource_by_id", "get_datasource_by_name", "query_loki",
     "get_loki_labels", "get_loki_label_values"}

\* the last call was one of ops and its last request failed
FailedIn(ops) == last.op \in ops /\ last.reqs # <<>> /\ LastOutcome.kind # "ok"

\* the call raised ValueError from the failed request, with the response body in
\* its message when the response had one
WrappedUpstreamError ==
    /\ last.result.kind = "raise"
    /\ last.result.exc = "ValueError"
    /\ last.result.cause = LastOutcome
    /\ last.result.detail.error.kind = LastOutcome.kind
    /\ last.result.detail.error.status = LastOutcome.status
    /\ (LastOutcome.kind = "http_error" /\ ~IsNone(LastOutcome.json)) =>
          last.result.detail.details = LastOutcome.json
    /\ (LastOutcome.kind = "http_error" /\ IsNone(LastOutcome.json) /\ LastOutcome.text # "") =>
          last.result.detail.response = Some(LastOutcome.text)

\* C18: all six gateway operations share one failure contract: a non-2xx response
\* or a transport failure on the operation's request makes it raise the wrapped
\* upstream error (ValueError from the request's exception), whose message
\* includes the response body when there is one.
C18_SharedFailureContract == FailedIn(GatewayOps) => WrappedUpstreamError

\* every concurrent call has ended
AllDone == calls # NoCalls /\ \A t \in DOMAIN calls : calls[t].pc = "done"

\* C19: when several _get_loki_datasource_uid calls on the same client run
\* concurrently as first access, then in every interleaving all calls that return
\* an identifier return the same one, and the memo ends holding it.
C19_RaceHarmless ==
    AllDone =>
        \A t \in DOMAIN calls :
            calls[t].ret.kind = "return" =>
                /\ gw._loki_datasource_uid = Some(calls[t].ret.value)
                /\ \A u \in DOMAIN calls :
                      calls[u].ret.kind = "return" => calls[u].ret = calls[t].ret

MissingSetting(cfg) == cfg.grafana_url = <<>> \/ cfg.grafana_api_key = <<>>

\* C20: when the Grafana URL or the API key is missing, the process never gets to
\* serve a tool invocation, and when it has ended it has ended in its startup
\* step with a non-zero exit code and a message naming a missing setting, having
\* constructed no client and issued no HTTP request.
C20_MissingConfigFatal ==
    MissingSetting(config) =>
        /\ proc # "running"
        /\ last.via \in {"none", "run"}
        /\ proc = "exited" =>
              /\ last.via = "run"
              /\ last.result.kind = "exit"
              /\ last.result.code # 0
              /\ last.result.msg = IF config.grafana_url = <<>>
                                   THEN "Error: Grafana URL is required"
                                   ELSE "Error: Grafana API key is required"
              /\ IsNone(last.made)
              /\ last.reqs = <<>>

\* the process was started without an API key and has exited with code 1
C20_Witness ==
    /\ config.grafana_url # <<>> /\ config.grafana_api_key = <<>>
    /\ proc = "exited"
    /\ last.result = Exit(1, "Error: Grafana API key is required")
    /\ IsNone(last.made) /\ last.reqs = <<>>

Formatted == fmt.stage = "done"

\* the query result holds data.result and it lists no stream
NoStreams(results) ==
    /\ ~HasKey(results, ErrorKey)
    /\ HasKey(results, DataKey) /\ HasKey(Get(results, DataKey), ResultKey)
    /\ Get(Get(results, DataKey), ResultKey).items = <<>>

\* C21: format_loki_results called with a format_type outside "text", "markdown",
\* "json" fails for every results value: it raises and returns no string.
C21_UnknownFormatRejected ==
    (Formatted /\ fmt.format_type \notin {"text", "markdown", "json"}) =>
        fmt.out.kind = "raise"

\* C22: format_loki_results with format type "text" or "markdown" applied to a
\* query result whose data.result is empty returns exactly "No results found".
C22_NoResultsLiteral ==
    (Formatted /\ fmt.format_type \in {"text", "markdown"} /\ NoStreams(fmt.results)) =>
        fmt.out = Return(<<"N", "o", " ", "r", "e", "s", "u", "l", "t", "s", " ", "f", "o", "u", "n", "d">>)

\* C23: format_loki_results with format type "json" round-trips: the returned
\* string parses as JSON to the entire query result it was given.
C23_JsonRoundTrip ==
    (Formatted /\ fmt.format_type = "json") =>
        /\ fmt.out.kind = "return"
        /\ JsonLoads(fmt.out.value).ok
        /\ JsonLoads(fmt.out.value).val = fmt.results

\* base is url without its trailing slashes
StrippedOf(url, base) ==
    /\ StartsWith(url, base)
    /\ base = <<>> \/ base[Len(base)] # "/"
    /\ \A i \in (Len(base) + 1)..Len(url) : url[i] = "/"

\* client c is what the constructor makes of url and token
ConstructedFrom(c, url, token) ==
    /\ StrippedOf(url, c.base_url)
    /\ c.headers = [Authorization |-> <<"B", "e", "a", "r", "e", "r", " ">> \o token]

\* every request in reqs carries c's header and targets a URL under c's base URL
RequestsOf(c, reqs) ==
    \A i \in 1..Len(reqs) :
        /\ reqs[i].headers = c.headers
        /\ StartsWith(reqs[i].url, c.base_url \o <<"/">>)

\* C24: the long-lived client and every client a tool builds hold the base URL
\* given at construction without its trailing slashes and the header
\* "Authorization: Bearer <token>" with the token given at construction; no call
\* changes either, and every request a call issues carries that header and
\* targets a URL under that base URL.
C24_HeaderAndBaseUrl ==
    /\ [](/\ \E u \in BaseUrls : ConstructedFrom(gw, u, ApiKey)
          /\ ~IsNone(last.made) =>
                ConstructedFrom(Val(last.made), config.grafana_url, config.grafana_api_key))
    /\ [][/\ gw'.base_url = gw.base_url /\ gw'.headers = gw.headers
          /\ last'.via = "client" => RequestsOf(gw, last'.reqs)
          /\ last'.via \in {"tool", "run"} /\ ~IsNone(last'.made) =>
                RequestsOf(Val(last'.made), last'.reqs)]_vars

\* the long-lived client answered a query with a listing and a query_range request,
\* both under its base URL and with its header
C24_Witness ==
    /\ last.via = "client" /\ last.op = "query_loki" /\ Len(last.reqs) = 2
    /\ RequestsOf(gw, last.reqs)
    /\ gw.base_url = GrafanaUrl

\* C25: the memoized Loki datasource identifier of the client is set once: when
\* the memo holds a value, no call on the client, successful or failed, and no
\* change of the Grafana instance's listing changes it or unsets it.
C25_CachedForever ==
    [][~IsNone(gw._loki_datasource_uid) =>
          gw'._loki_datasource_uid = gw._loki_datasource_uid]_vars

\* a query on the client failed while the memo held a value, and the memo still holds it
C25_Witness ==
    /\ last.via = "client" /\ last.op = "query_loki"
    /\ last.result.kind = "raise"
    /\ ~IsNone(last.uidBefore)
    /\ gw._loki_datasource_uid = last.uidBefore

\* an entry with the text of its line blanked
Unlined(value) == IF Len(value) >= 2 THEN [value EXCEPT ![2] = <<>>] ELSE value

UnlinedStream(stream) ==
    IF "values" \in DOMAIN stream
    THEN [stream EXCEPT !.values = [j \in 1..Len(stream.values) |-> Unlined(stream.values[j])]]
    ELSE stream

\* a response body with the text of every log line blanked
UnlinedBody(b) ==
    IF HasResult(b)
    THEN [b EXCEPT !.data.result =
            [i \in 1..Len(b.data.result) |-> UnlinedStream(b.data.result[i])]]
    ELSE b

\* C26: the result of a successful query_loki is the response body of the Grafana
\* instance except for the text of log lines: status, result type, stream labels,
\* number and order of streams and of entries, every timestamp, every further
\* element of an entry and every entry with fewer than 2 elements are unchanged.
C26_VerbatimExceptLines ==
    QuerySucceeded => UnlinedBody(last.result.value) = UnlinedBody(UpstreamBody)

\* the calls that are gateway operations, on the long-lived client or in a tool
GatewayCall == last.via \in {"client", "tool"}

\* the requests of the last call that are no listing requests
OwnRequests == {i \in 1..Len(last.reqs) : ~IsListRequest(last.reqs[i])}

\* C27: every gateway operation makes a single attempt.  A call issues at most
\* one request to its own endpoint, and a call that needs the Loki identifier
\* issues before it at most one listing request, and none when the identifier is
\* memoized; a request that fails is the last request of the call, and the call
\* then raises.
C27_SingleAttempt ==
    GatewayCall =>
        /\ IF last.op = "get_datasources" THEN Len(last.reqs) = 1
           ELSE /\ Cardinality(OwnRequests) <= 1
                /\ ListRequests(last.reqs) <= (IF last.op \in ResolvingOps
                                                  /\ IsNone(last.uidBefore) THEN 1 ELSE 0)
        /\ \A i \in 1..Len(last.reqs) :
              last.reqs[i].outcome.kind # "ok" =>
                  i = Len(last.reqs) /\ last.result.kind = "raise"

\* a query on the client found its listing request refused and issued nothing more
C27_Witness ==
    /\ last.via = "client" /\ last.op = "query_loki"
    /\ Len(last.reqs) = 1 /\ IsListRequest(last.reqs[1])
    /\ last.reqs[1].outcome = ConnError
    /\ last.result.kind = "raise"

ProxyOps == {"query_loki", "get_loki_labels", "get_loki_label_values"}

\* a request to an endpoint under /api/datasources/proxy/
IsProxyRequest(req) ==
    \E i \in 1..Len(req.url) :
        StartsWith(SubSeq(req.url, i, Len(req.url)),
                   <<"/", "a", "p", "i", "/", "d", "a", "t", "a", "s", "o", "u", "r", "c",
                     "e", "s", "/", "p", "r", "o", "x", "y", "/">>)

\* the last call had to resolve the Loki datasource and could not: its listing
\* request failed, or the listing it got names no Loki datasource with an id or a uid
ResolutionFailed ==
    /\ GatewayCall /\ last.op \in ProxyOps
    /\ IsNone(last.uidBefore)
    /\ last.reqs # <<>>
    /\ \/ last.reqs[1].outcome.kind # "ok"
       \/ \A i \in 1..Len(Val(last.reqs[1].body).datasources) :
              ~Usable(Val(last.reqs[1].body).datasources[i])

\* C28: query_loki, get_loki_labels and get_loki_label_values resolve the Loki
\* datasource before their proxy request: when the resolution fails, the call
\* issues no request to a /api/datasources/proxy/ endpoint and raises the
\* failure of the resolution.
C28_ResolveBeforeProxy ==
    ResolutionFailed =>
        /\ \A i \in 1..Len(last.reqs) : ~IsProxyRequest(last.reqs[i])
        /\ last.result.kind = "raise"
        /\ last.result.exc = "ValueError"
        /\ last.result.msg = IF last.reqs[1].outcome.kind # "ok"
                             THEN "Error getting datasources"
                             ELSE "No Loki datasource found"

\* get_loki_labels on the client read a listing without a Loki datasource and
\* raised after that one request
C28_Witness ==
    /\ ResolutionFailed
    /\ last.via = "client" /\ last.op = "get_loki_labels"
    /\ last.reqs[1].outcome.kind = "ok"
    /\ Len(last.reqs) = 1
    /\ last.result.msg = "No Loki datasource found"

\* the last call was made on the long-lived client, needed the Loki identifier
\* and followed a call of that kind whose resolution had failed
RetryAfterFailure == last.via = "client" /\ LastResolves /\ last.afterFailure

\* C29: a failed resolution is never cached.  After a call on the long-lived
\* client whose resolution failed - the listing request failed, or the listing had
\* no Loki entry with an id or a uid - the memo is unset; the next call on that
\* client that needs the identifier finds the memo unset, issues one new
\* datasource-list request as its first request, and when that request is
\* answered with a listing that has such an entry it resolves the identifier of
\* the first one and memoizes it.
C29_FailureNotCached ==
    /\ FailedToResolve => IsNone(gw._loki_datasource_uid)
    /\ RetryAfterFailure =>
          /\ IsNone(last.uidBefore)
          /\ ListRequests(last.reqs) = 1
          /\ IsListRequest(last.reqs[1])
          /\ (/\ ~IsNone(last.listed)
              /\ \E i \in 1..Len(Val(last.listed)) : Usable(Val(last.listed)[i])) =>
                 /\ last.resolved = IdentifierOf(First(Val(last.listed), Usable))
                 /\ gw._loki_datasource_uid = last.resolved
                 /\ last.op = "_get_loki_datasource_uid" =>
                        last.result = Return(Val(last.resolved))

\* a query_loki on the long-lived client that followed a failed resolution,
\* listed the datasources again, resolved the Loki datasource and returned
C29_Witness ==
    /\ RetryAfterFailure
    /\ last.op = "query_loki"
    /\ Len(last.reqs) = 2
    /\ ~IsNone(last.resolved)
    /\ gw._loki_datasource_uid = last.resolved
    /\ last.result.kind = "return"

\* whole_seconds * 10^9 + microseconds * 10^3 of the datetime the text s parses
\* to, a naive one read in the host's zone
IntegerNano(s, tz) ==
    With(FromIsoFormat(ReplaceZ(s)), LAMBDA dt :
        [sec |-> EpochSeconds(dt, tz), ns |-> dt.microsecond * 1000])

\* the texts fromisoformat accepts
IsoInputs == NaiveIsoInputs \cup AwareIsoInputs \cup DateOnlyInputs

\* C30 (as the specification states it): the conversion of a parsed datetime to
\* nanoseconds is exact: iso8601_to_unix_nano, and the query_loki tool in its
\* digit string, produce whole_seconds * 10^9 + microseconds * 10^3.
C30_ExactConversion ==
    (time_in \in IsoInputs) =>
        /\ time_out.fn = "iso8601_to_unix_nano" =>
              time_out.r = Some(IntegerNano(time_in, hostTz))
        /\ time_out.fn = "tool" =>
              time_out.r = Some(StrNano(IntegerNano(time_in, hostTz)))
====
